---- MODULE Spec2Model ----
(***************************************************************************)
(* A model of the simulation kernel of the roguelike: entities and combat  *)
(* (object.rs, object/*.rs), the turn scheduler, leveling and persistence  *)
(* (game.rs) and the level generator (game/map.rs).                        *)
(*                                                                         *)
(* Option<T> is modelled as a sequence: None is <<>> and Some(v) is <<v>>. *)
(* A message text is the tuple of its format string and its arguments.     *)
(* The map is the set of its empty (carved) tiles, every other tile being  *)
(* a wall, together with the set of its explored tiles.                    *)
(***************************************************************************)
EXTENDS Integers, Sequences, FiniteSets, TLC

VARIABLES
    game,      \* Game {map, messages, inventory, dungeon_level}
    objects,   \* Vec<Object>, the world collection; objects[1] is PLAYER
    fov,       \* tcod.fov: the tiles in the field of view last computed
    pc,        \* position in play_game / level_up
    action,    \* play_game's local `action` of the current cycle
    id,        \* play_game's loop variable of the AI sweep
    previous_player_position,  \* play_game's local of that name
    level_up_xp_,  \* level_up's local `level_up_xp`, 0 outside level_up
    savegame,  \* the document in SAVEGAME_FILE, None when there is none
    ticks,     \* history: the AI ticks that Confused entities were given
               \* since confusion was last cast
    rooms,     \* make_map's local `rooms`, empty outside make_map
    cursor,    \* make_map's progress in the loop it is in: the attempts made
               \* of the first, the rooms filled of the second
    rounds,    \* history: the rounds of level_up's menu loop in which menu
               \* returned None, counted up to MenuRounds; 0 outside the loop
    skipped    \* history: the draws of the loop fill_with_objects is in that
               \* landed on a blocked tile; 0 outside fill_with_objects

vars == <<game, objects, fov, pc, action, id, previous_player_position,
          level_up_xp_, savegame, ticks, rooms, cursor, rounds, skipped>>

---------------------------------------------------------------------------
(* Program constants *)

MAP_WIDTH == 80
MAP_HEIGHT == 43
ROOM_MIN_SIZE == 6
ROOM_MAX_SIZE == 10
MAX_ROOMS == 30
PLAYER == 1
LEVEL_UP_BASE == 200
LEVEL_UP_FACTOR == 150
HEAL_AMOUNT == 40
LIGHTNING_DAMAGE == 40
LIGHTNING_RANGE == 5
CONFUSE_RANGE == 8
CONFUSE_NUM_TURNS == 10
FIREBALL_RADIUS == 3
FIREBALL_DAMAGE == 25
TORCH_RADIUS == 10
INVENTORY_CAPACITY == 26

(* Bounds of the model *)

\* The input loop stops reading keys once the log holds this many messages.
MaxLog == 2
\* The same, in the sessions of the duel with one orc
DuelLog == 10
\* The same, in the sessions of the confused orc
ConfusionLog == 4
\* The same, where equip, dequip and toggle are applied to two held items
EquipLog == 3
\* The same, in the sessions started from the main menu
MenuLog == 2
\* The same, in the sessions of the descent
DescentLog == 2
\* The same, in the sessions of the full pack
PickupLog == 3
\* The same, in the sessions of the fireball
FireLog == 4
\* The same, in the sessions of the level-up
LevelLog == 2
\* The same, in the sessions of the armoury
ArmouryLog == 5
\* The same, in the sessions of the turns
TurnLog == 2
\* The same, in the sessions of the second scroll of confusion
NestLog == 5
\* The rounds of the level-up menu that are counted
MenuRounds == 2
\* Generation draws the cells of monsters and items within this distance of
\* the room's center column, on the center row.
SpawnSpan == 1

---------------------------------------------------------------------------
(* Helpers *)

None == <<>>
Some(v) == <<v>>
is_some(o) == o # <<>>
is_none(o) == o = <<>>
unwrap(o) == o[1]

Max(a, b) == IF a >= b THEN a ELSE b
Min(a, b) == IF a <= b THEN a ELSE b

RECURSIVE SumSeq(_)
SumSeq(s) == IF s = <<>> THEN 0 ELSE Head(s) + SumSeq(Tail(s))

\* The least of the indexes at which the predicate holds, or 0
\* (Iterator::position); found is the set of those indexes.
position(found) ==
    IF found # {}
    THEN CHOOSE i \in found : \A j \in found : i <= j
    ELSE 0

\* Vec::remove and Vec::swap_remove
remove(s, i) == SubSeq(s, 1, i - 1) \o SubSeq(s, i + 1, Len(s))
swap_remove(s, i) ==
    IF i = Len(s) THEN SubSeq(s, 1, Len(s) - 1)
    ELSE [k \in 1..(Len(s) - 1) |-> IF k = i THEN s[Len(s)] ELSE s[k]]

\* Messages::add
add(messages, text, color) == Append(messages, [text |-> text, color |-> color])

---------------------------------------------------------------------------
(* Entities: object.rs, object/monster.rs, object/item.rs *)

Object_new(x, y, glyph, color, name, blocks) ==
    [x |-> x, y |-> y, glyph |-> glyph, color |-> color, name |-> name,
     blocks |-> blocks, alive |-> FALSE, level |-> 1, fighter |-> None,
     ai |-> None, item |-> None, equipment |-> None, always_visible |-> FALSE]

Fighter(base_max_hp, hp, base_defense, base_power, xp, on_death) ==
    [base_max_hp |-> base_max_hp, hp |-> hp, base_defense |-> base_defense,
     base_power |-> base_power, xp |-> xp, on_death |-> on_death]

Basic == [kind |-> "Basic"]
Confused(previous_ai, lasts_for) ==
    [kind |-> "Confused", previous_ai |-> previous_ai, lasts_for |-> lasts_for]

Equipment(slot, equipped, max_hp_bonus, defense_bonus, power_bonus) ==
    [slot |-> slot, equipped |-> equipped, max_hp_bonus |-> max_hp_bonus,
     defense_bonus |-> defense_bonus, power_bonus |-> power_bonus]

create_orc(x, y) ==
    [Object_new(x, y, "o", "DESATURATED_GREEN", "orc", TRUE) EXCEPT
        !.alive = TRUE,
        !.fighter = Some(Fighter(20, 20, 0, 4, 35, "Monster")),
        !.ai = Some(Basic)]

create_troll(x, y) ==
    [Object_new(x, y, "T", "DARKER_GREEN", "troll", TRUE) EXCEPT
        !.alive = TRUE,
        !.fighter = Some(Fighter(30, 30, 2, 8, 100, "Monster")),
        !.ai = Some(Basic)]

Monster_create(monster, x, y) ==
    IF monster = "Orc" THEN create_orc(x, y) ELSE create_troll(x, y)

Item_create(item, x, y) ==
    CASE item = "Heal" ->
           [Object_new(x, y, "!", "VIOLET", "healing potion", FALSE) EXCEPT
               !.item = Some("Heal")]
      [] item = "Shield" ->
           [Object_new(x, y, "o", "DARKER_ORANGE", "shield", FALSE) EXCEPT
               !.item = Some("Shield"),
               !.equipment = Some(Equipment("LeftHand", FALSE, 0, 1, 0))]
      [] item = "Sword" ->
           [Object_new(x, y, "/", "SKY", "sword", FALSE) EXCEPT
               !.item = Some("Sword"),
               !.equipment = Some(Equipment("RightHand", FALSE, 0, 0, 3))]
      [] item = "Lightning" ->
           [Object_new(x, y, "#", "LIGHT_YELLOW", "scroll of lightning bolt", FALSE)
               EXCEPT !.item = Some("Lightning")]
      [] item = "Fireball" ->
           [Object_new(x, y, "#", "LIGHT_YELLOW", "scroll of fireball", FALSE)
               EXCEPT !.item = Some("Fireball")]
      [] item = "Confusion" ->
           [Object_new(x, y, "#", "LIGHT_YELLOW", "scroll of confusion", FALSE)
               EXCEPT !.item = Some("Confusion")]

pos(self) == <<self.x, self.y>>
set_pos(self, x, y) == [self EXCEPT !.x = x, !.y = y]

\* Object::distance compares sqrt(dx*dx + dy*dy) with a bound; the model
\* keeps the square, and every comparison squares its bound.
distance2(self, x, y) == (x - self.x) * (x - self.x) + (y - self.y) * (y - self.y)

\* get_all_equipped as it would be without the filter on `equipped`
get_all_equipped_held(self, g) ==
    IF self.name = "player"
    THEN LET worn(item) == is_some(item.equipment)
             held == SelectSeq(g.inventory, worn)
         IN  [i \in DOMAIN held |-> held[i].equipment[1]]
    ELSE <<>>

get_all_equipped(self, g) ==
    IF self.name = "player"
    THEN LET worn(item) == is_some(item.equipment) /\ item.equipment[1].equipped
             held == SelectSeq(g.inventory, worn)
         IN  [i \in DOMAIN held |-> held[i].equipment[1]]
    ELSE <<>>

max_hp(self, g) ==
    LET base_max_hp == IF is_some(self.fighter) THEN self.fighter[1].base_max_hp ELSE 0
        all == get_all_equipped(self, g)
    IN  base_max_hp + SumSeq([i \in DOMAIN all |-> all[i].max_hp_bonus])

\* power as it would be without the bonuses of the equipment
power_base_only(self, g) ==
    IF is_some(self.fighter) THEN self.fighter[1].base_power ELSE 0

power(self, g) ==
    LET base_power == IF is_some(self.fighter) THEN self.fighter[1].base_power ELSE 0
        all == get_all_equipped(self, g)
    IN  base_power + SumSeq([i \in DOMAIN all |-> all[i].power_bonus])

defense(self, g) ==
    LET base_defense == IF is_some(self.fighter) THEN self.fighter[1].base_defense ELSE 0
        all == get_all_equipped(self, g)
    IN  base_defense + SumSeq([i \in DOMAIN all |-> all[i].defense_bonus])

level_up_xp(self) == LEVEL_UP_BASE + self.level * LEVEL_UP_FACTOR

---------------------------------------------------------------------------
(* Combat: Object::take_damage, Object::attack, the death callbacks *)

player_death(player, g) ==
    [self |-> [player EXCEPT !.glyph = "%", !.color = "DARK_RED"],
     game |-> [g EXCEPT !.messages = add(@, <<"You died!">>, "RED")]]

\* monster_death as it would be if it left the ai in place
monster_death_keeps_ai(monster, g) ==
    [self |-> [monster EXCEPT !.glyph = "%", !.color = "DARK_RED",
                              !.blocks = FALSE, !.fighter = None,
                              !.name = "remains of " \o monster.name],
     game |-> [g EXCEPT !.messages =
                  add(@, <<"{} is dead! You gain {} experience points.",
                           monster.name, monster.fighter[1].xp>>, "ORANGE")]]

monster_death(monster, g) ==
    [self |-> [monster EXCEPT !.glyph = "%", !.color = "DARK_RED",
                              !.blocks = FALSE, !.fighter = None, !.ai = None,
                              !.name = "remains of " \o monster.name],
     game |-> [g EXCEPT !.messages =
                  add(@, <<"{} is dead! You gain {} experience points.",
                           monster.name, monster.fighter[1].xp>>, "ORANGE")]]

callback(on_death, object, g) ==
    IF on_death = "Player" THEN player_death(object, g) ELSE monster_death(object, g)

\* take_damage as it would be without the cmp::max
take_damage_unclamped(self, damage, g) ==
    LET hit == IF is_some(self.fighter) /\ damage > 0
               THEN [self EXCEPT !.fighter[1].hp = @ - damage]
               ELSE self
    IN  IF is_some(hit.fighter) /\ hit.alive /\ hit.fighter[1].hp <= 0
        THEN LET dead == callback(hit.fighter[1].on_death,
                                  [hit EXCEPT !.alive = FALSE], g)
             IN  [self |-> dead.self, game |-> dead.game,
                  ret |-> Some(hit.fighter[1].xp)]
        ELSE [self |-> hit, game |-> g, ret |-> None]

\* take_damage as it would be without the test of `alive`
take_damage_dies_again(self, damage, g) ==
    LET hit == IF is_some(self.fighter) /\ damage > 0
               THEN [self EXCEPT !.fighter[1].hp = Max(@ - damage, 0)]
               ELSE self
    IN  IF is_some(hit.fighter) /\ hit.fighter[1].hp = 0
        THEN LET dead == callback(hit.fighter[1].on_death,
                                  [hit EXCEPT !.alive = FALSE], g)
             IN  [self |-> dead.self, game |-> dead.game,
                  ret |-> Some(hit.fighter[1].xp)]
        ELSE [self |-> hit, game |-> g, ret |-> None]

\* The result holds the entity, the game and the returned Option<i32>.
take_damage(self, damage, g) ==
    LET hit == IF is_some(self.fighter) /\ damage > 0
               THEN [self EXCEPT !.fighter[1].hp = Max(@ - damage, 0)]
               ELSE self
    IN  IF is_some(hit.fighter) /\ hit.alive /\ hit.fighter[1].hp = 0
        THEN LET dead == callback(hit.fighter[1].on_death,
                                  [hit EXCEPT !.alive = FALSE], g)
             IN  [self |-> dead.self, game |-> dead.game,
                  ret |-> Some(hit.fighter[1].xp)]
        ELSE [self |-> hit, game |-> g, ret |-> None]

\* attack as it would be with the test `damage >= 0`
attack_from_zero(self, other, g) ==
    LET damage == power(self, g) - defense(other, g)
    IN  IF damage >= 0
        THEN LET logged == [g EXCEPT !.messages =
                               add(@, <<"{} attacks {} for {} hit points.",
                                        self.name, other.name, damage>>, "WHITE")]
                 r == take_damage(other, damage, logged)
             IN  [self |-> IF is_some(r.ret)
                           THEN [self EXCEPT !.fighter[1].xp = @ + r.ret[1]]
                           ELSE self,
                  other |-> r.self, game |-> r.game]
        ELSE [self |-> self, other |-> other,
              game |-> [g EXCEPT !.messages =
                           add(@, <<"{} attacks {} but it has no effect!",
                                    self.name, other.name>>, "WHITE")]]

\* The result holds the attacker, the target and the game.
attack(self, other, g) ==
    LET damage == power(self, g) - defense(other, g)
    IN  IF damage > 0
        THEN LET logged == [g EXCEPT !.messages =
                               add(@, <<"{} attacks {} for {} hit points.",
                                        self.name, other.name, damage>>, "WHITE")]
                 r == take_damage(other, damage, logged)
             IN  [self |-> IF is_some(r.ret)
                           THEN [self EXCEPT !.fighter[1].xp = @ + r.ret[1]]
                           ELSE self,
                  other |-> r.self, game |-> r.game]
        ELSE [self |-> self, other |-> other,
              game |-> [g EXCEPT !.messages =
                           add(@, <<"{} attacks {} but it has no effect!",
                                    self.name, other.name>>, "WHITE")]]

heal(self, amount, g) ==
    IF is_some(self.fighter)
    THEN [self EXCEPT !.fighter[1].hp = Min(@ + amount, max_hp(self, g))]
    ELSE self

---------------------------------------------------------------------------
(* Equipment: Object::equip, Object::dequip, Equipment::toggle *)

\* The result holds the item and the message log.
equip(self, messages) ==
    IF is_none(self.item)
    THEN [self |-> self,
          messages |-> add(messages, <<"Can't equip {:?} because it's not an Item.", self>>, "RED")]
    ELSE IF is_some(self.equipment)
    THEN IF ~self.equipment[1].equipped
         THEN [self |-> [self EXCEPT !.equipment[1].equipped = TRUE],
               messages |-> add(messages, <<"Equipped {} on {}.", self.name,
                                            self.equipment[1].slot>>, "LIGHT_GREEN")]
         ELSE [self |-> self, messages |-> messages]
    ELSE [self |-> self,
          messages |-> add(messages, <<"Can't equip {:?} because it's not an Equipment.", self>>, "RED")]

dequip(self, messages) ==
    IF is_none(self.item)
    THEN [self |-> self,
          messages |-> add(messages, <<"Can't dequip {:?} because it's not an Item.", self>>, "RED")]
    ELSE IF is_some(self.equipment)
    THEN IF self.equipment[1].equipped
         THEN [self |-> [self EXCEPT !.equipment[1].equipped = FALSE],
               messages |-> add(messages, <<"Dequipped {} on {}.", self.name,
                                            self.equipment[1].slot>>, "LIGHT_GREEN")]
         ELSE [self |-> self, messages |-> messages]
    ELSE [self |-> self,
          messages |-> add(messages, <<"Can't dequip {:?} because it's not an Equipment.", self>>, "RED")]

\* The index of the first item equipped in the slot, or 0 for None.
get_equipped_in_slot(slot, inventory) ==
    LET worn(item) == is_some(item.equipment) /\ item.equipment[1].equipped
                      /\ item.equipment[1].slot = slot
    IN  position({i \in DOMAIN inventory : worn(inventory[i])})

\* dequip and equip applied to inventory[i] of the game
dequip_at(g, i) ==
    LET r == dequip(g.inventory[i], g.messages)
    IN  [g EXCEPT !.inventory[i] = r.self, !.messages = r.messages]

equip_at(g, i) ==
    LET r == equip(g.inventory[i], g.messages)
    IN  [g EXCEPT !.inventory[i] = r.self, !.messages = r.messages]

\* toggle as it would be if it left the item equipped in the slot as it is
toggle_over(i, g) ==
    IF is_none(g.inventory[i].equipment)
    THEN [game |-> g, result |-> "Cancelled"]
    ELSE IF g.inventory[i].equipment[1].equipped
         THEN [game |-> dequip_at(g, i), result |-> "UsedAndKept"]
         ELSE [game |-> equip_at(g, i), result |-> "UsedAndKept"]

\* The result holds the game and the UseResult.
toggle(i, g) ==
    IF is_none(g.inventory[i].equipment)
    THEN [game |-> g, result |-> "Cancelled"]
    ELSE LET equipment == g.inventory[i].equipment[1]
         IN  IF equipment.equipped
             THEN [game |-> dequip_at(g, i), result |-> "UsedAndKept"]
             ELSE LET current == get_equipped_in_slot(equipment.slot, g.inventory)
                      freed == IF current # 0 THEN dequip_at(g, current) ELSE g
                  IN  [game |-> equip_at(freed, i), result |-> "UsedAndKept"]

---------------------------------------------------------------------------
(* The map: game/map.rs *)

is_out_of_bounds(x, y) == x < 0 \/ x >= MAP_WIDTH \/ y < 0 \/ y >= MAP_HEIGHT

is_blocked(x, y, map, objs) ==
    \/ <<x, y>> \notin map.empty
    \/ \E i \in DOMAIN objs : pos(objs[i]) = <<x, y>> /\ objs[i].blocks

\* move_by as it would be without the test of the destination
move_by_through(i, dx, dy, g, objs) ==
    [objs EXCEPT ![i] = set_pos(@, objs[i].x + dx, objs[i].y + dy)]

\* The result is the entity collection.
move_by(i, dx, dy, g, objs) ==
    LET new_x == objs[i].x + dx
        new_y == objs[i].y + dy
    IN  IF is_blocked(new_x, new_y, g.map, objs) \/ is_out_of_bounds(new_x, new_y)
        THEN objs
        ELSE [objs EXCEPT ![i] = set_pos(@, new_x, new_y)]

\* player_move_or_attack as it would be if it took the killed out of the
\* collection
player_move_or_attack_buries(dx, dy, g, objs) ==
    LET new_pos == <<objs[PLAYER].x + dx, objs[PLAYER].y + dy>>
        enemy(o) == is_some(o.fighter) /\ pos(o) = new_pos
        target_id == position({i \in DOMAIN objs : enemy(objs[i])})
    IN  IF target_id # 0
        THEN LET r == attack(objs[PLAYER], objs[target_id], g)
                 struck == [objs EXCEPT ![PLAYER] = r.self, ![target_id] = r.other]
             IN  [game |-> r.game,
                  objects |-> IF r.other.alive THEN struck
                              ELSE swap_remove(struck, target_id)]
        ELSE [game |-> g, objects |-> move_by(PLAYER, dx, dy, g, objs)]

\* The result holds the game and the entity collection.
player_move_or_attack(dx, dy, g, objs) ==
    LET new_pos == <<objs[PLAYER].x + dx, objs[PLAYER].y + dy>>
        enemy(o) == is_some(o.fighter) /\ pos(o) = new_pos
        target_id == position({i \in DOMAIN objs : enemy(objs[i])})
    IN  IF target_id # 0
        THEN LET r == attack(objs[PLAYER], objs[target_id], g)
             IN  [game |-> r.game,
                  objects |-> [objs EXCEPT ![PLAYER] = r.self, ![target_id] = r.other]]
        ELSE [game |-> g, objects |-> move_by(PLAYER, dx, dy, g, objs)]

---------------------------------------------------------------------------
(* Items: object/item.rs; pickup and drop: game.rs *)

\* Every cast returns the game, the entity collection and the UseResult.
cast_heal(g, objs) ==
    IF is_some(objs[PLAYER].fighter)
    THEN IF objs[PLAYER].fighter[1].hp = max_hp(objs[PLAYER], g)
         THEN [game |-> [g EXCEPT !.messages =
                            add(@, <<"You are already at full health">>, "RED")],
               objects |-> objs, result |-> "Cancelled"]
         ELSE LET logged == [g EXCEPT !.messages =
                                add(@, <<"Youre wounds start to feel better!">>, "LIGHT_VIOLET")]
              IN  [game |-> logged,
                   objects |-> [objs EXCEPT ![PLAYER] = heal(@, HEAL_AMOUNT, logged)],
                   result |-> "UsedUp"]
    ELSE [game |-> g, objects |-> objs, result |-> "Cancelled"]

\* The index of the closest visible monster within max_range, or 0 for None:
\* the first of the least distance, which must be below max_range + 1.
target_closest(visible, objs, max_range) ==
    LET enemy(i) == i # PLAYER /\ is_some(objs[i].fighter) /\ is_some(objs[i].ai)
                    /\ pos(objs[i]) \in visible
        dist2(i) == distance2(objs[PLAYER], objs[i].x, objs[i].y)
        near == {i \in DOMAIN objs :
                    enemy(i) /\ dist2(i) < (max_range + 1) * (max_range + 1)}
    IN  IF near = {} THEN 0
        ELSE CHOOSE i \in near :
                 \A j \in near : dist2(i) < dist2(j) \/ (dist2(i) = dist2(j) /\ i <= j)

cast_lightning(visible, g, objs) ==
    LET target == target_closest(visible, objs, LIGHTNING_RANGE)
    IN  IF target # 0
        THEN LET logged == [g EXCEPT !.messages =
                               add(@, <<"A lightning bolt strikes the {} with a loud thunder! The damage is {} git points.",
                                        objs[target].name, LIGHTNING_DAMAGE>>, "LIGHT_BLUE")]
                 r == take_damage(objs[target], LIGHTNING_DAMAGE, logged)
                 hit == [objs EXCEPT ![target] = r.self]
             IN  [game |-> r.game,
                  objects |-> IF is_some(r.ret)
                              THEN [hit EXCEPT ![PLAYER].fighter[1].xp = @ + r.ret[1]]
                              ELSE hit,
                  result |-> "UsedUp"]
        ELSE [game |-> [g EXCEPT !.messages =
                           add(@, <<"No enemy is close enough to strike.">>, "RED")],
              objects |-> objs, result |-> "Cancelled"]

\* The tiles target_tile can return: in the field of view and in range.
target_tiles(visible, objs, max_range) ==
    {t \in visible :
        /\ ~is_out_of_bounds(t[1], t[2])
        /\ (max_range # 0 => distance2(objs[PLAYER], t[1], t[2]) <= max_range * max_range)}

\* The monsters target_monster can return: the first entity with a Fighter,
\* other than the player, on a tile that target_tile can return.
target_monsters(visible, objs, max_range) ==
    {i \in DOMAIN objs :
        /\ pos(objs[i]) \in target_tiles(visible, objs, max_range)
        /\ is_some(objs[i].fighter) /\ i # PLAYER
        /\ \A j \in 1..(i - 1) :
              ~(pos(objs[j]) = pos(objs[i]) /\ is_some(objs[j].fighter) /\ j # PLAYER)}

\* cast_confusion as it would be if the confusion cast took the place of the
\* one that lasts
cast_confusion_anew(target, g, objs) ==
    LET asked == [g EXCEPT !.messages =
                     add(@, <<"Left-click an enemy to confuse it, or right-click to cancel.">>,
                         "LIGHT_CYAN")]
    IN  IF target # 0
        THEN [game |-> [asked EXCEPT !.messages =
                           add(@, <<"The eyes of {} look vacant, as he starts to stumble around!",
                                    objs[target].name>>, "LIGHT_GREEN")],
              objects |-> [objs EXCEPT ![target].ai = Some(Confused(Basic, CONFUSE_NUM_TURNS))],
              result |-> "UsedUp"]
        ELSE [game |-> asked, objects |-> objs, result |-> "Cancelled"]

\* target is the monster that target_monster returned, or 0 for None.
cast_confusion(target, g, objs) ==
    LET asked == [g EXCEPT !.messages =
                     add(@, <<"Left-click an enemy to confuse it, or right-click to cancel.">>,
                         "LIGHT_CYAN")]
    IN  IF target # 0
        THEN LET old_ai == IF is_some(objs[target].ai) THEN objs[target].ai[1] ELSE Basic
             IN  [game |-> [asked EXCEPT !.messages =
                               add(@, <<"The eyes of {} look vacant, as he starts to stumble around!",
                                        objs[target].name>>, "LIGHT_GREEN")],
                  objects |-> [objs EXCEPT ![target].ai =
                                  Some(Confused(old_ai, CONFUSE_NUM_TURNS))],
                  result |-> "UsedUp"]
        ELSE [game |-> asked, objects |-> objs, result |-> "Cancelled"]

\* burn as it would be without the test `id != PLAYER`
RECURSIVE burn_rewards_all(_, _, _, _, _, _)
burn_rewards_all(i, x, y, g, objs, xp_to_gain) ==
    IF i > Len(objs) THEN [game |-> g, objects |-> objs, xp_to_gain |-> xp_to_gain]
    ELSE IF distance2(objs[i], x, y) <= FIREBALL_RADIUS * FIREBALL_RADIUS
            /\ is_some(objs[i].fighter)
    THEN LET logged == [g EXCEPT !.messages =
                           add(@, <<"The {} gets burned for {} hit points.",
                                    objs[i].name, FIREBALL_DAMAGE>>, "ORANGE")]
             r == take_damage(objs[i], FIREBALL_DAMAGE, logged)
         IN  burn_rewards_all(i + 1, x, y, r.game, [objs EXCEPT ![i] = r.self],
                              IF is_some(r.ret) THEN xp_to_gain + r.ret[1] ELSE xp_to_gain)
    ELSE burn_rewards_all(i + 1, x, y, g, objs, xp_to_gain)

\* The fireball's loop over the entities from index i on; the result holds the
\* game, the entity collection and xp_to_gain.
RECURSIVE burn(_, _, _, _, _, _)
burn(i, x, y, g, objs, xp_to_gain) ==
    IF i > Len(objs) THEN [game |-> g, objects |-> objs, xp_to_gain |-> xp_to_gain]
    ELSE IF distance2(objs[i], x, y) <= FIREBALL_RADIUS * FIREBALL_RADIUS
            /\ is_some(objs[i].fighter)
    THEN LET logged == [g EXCEPT !.messages =
                           add(@, <<"The {} gets burned for {} hit points.",
                                    objs[i].name, FIREBALL_DAMAGE>>, "ORANGE")]
             r == take_damage(objs[i], FIREBALL_DAMAGE, logged)
         IN  burn(i + 1, x, y, r.game, [objs EXCEPT ![i] = r.self],
                  IF is_some(r.ret) /\ i # PLAYER
                  THEN xp_to_gain + r.ret[1] ELSE xp_to_gain)
    ELSE burn(i + 1, x, y, g, objs, xp_to_gain)

\* tile is the tile that target_tile returned, or None.
cast_fireball(tile, g, objs) ==
    LET asked == [g EXCEPT !.messages =
                     add(@, <<"Left-click a target tile for the fireball, or right-click to cancel.">>,
                         "LIGHT_CYAN")]
    IN  IF is_none(tile)
        THEN [game |-> asked, objects |-> objs, result |-> "Cancelled"]
        ELSE LET lit == [asked EXCEPT !.messages =
                            add(@, <<"The fireball explodes, burning everything within {} tiles!",
                                     FIREBALL_RADIUS>>, "ORANGE")]
                 r == burn(1, tile[1][1], tile[1][2], lit, objs, 0)
             IN  [game |-> r.game,
                  objects |-> [r.objects EXCEPT ![PLAYER].fighter[1].xp = @ + r.xp_to_gain],
                  result |-> "UsedUp"]

\* The inputs of a use of inventory[i]: the monster or the tile the player
\* picks when the item asks for a target. The fireball's tile is drawn from
\* the tiles that hold an entity.
use_inputs(i, visible, g, objs) ==
    IF g.inventory[i].item = Some("Confusion")
    THEN {[monster |-> m, tile |-> None] :
             m \in {0} \cup target_monsters(visible, objs, CONFUSE_RANGE)}
    ELSE IF g.inventory[i].item = Some("Fireball")
    THEN {[monster |-> 0, tile |-> t] :
             t \in {None} \cup {Some(u) : u \in {v \in target_tiles(visible, objs, 0) :
                                                    \E k \in DOMAIN objs : pos(objs[k]) = v}}}
    ELSE {[monster |-> 0, tile |-> None]}

\* The result holds the game and the entity collection.
use_item(i, input, visible, g, objs) ==
    IF is_some(g.inventory[i].item)
    THEN LET item == g.inventory[i].item[1]
             r == CASE item = "Heal" -> cast_heal(g, objs)
                    [] item = "Lightning" -> cast_lightning(visible, g, objs)
                    [] item = "Confusion" -> cast_confusion(input.monster, g, objs)
                    [] item = "Fireball" -> cast_fireball(input.tile, g, objs)
                    [] item \in {"Sword", "Shield"} ->
                         LET t == toggle(i, g)
                         IN  [game |-> t.game, objects |-> objs, result |-> t.result]
         IN  CASE r.result = "UsedUp" ->
                    [game |-> [r.game EXCEPT !.inventory = remove(@, i)],
                     objects |-> r.objects]
               [] r.result = "UsedAndKept" -> [game |-> r.game, objects |-> r.objects]
               [] r.result = "Cancelled" ->
                    [game |-> [r.game EXCEPT !.messages = add(@, <<"Cancelled">>, "WHITE")],
                     objects |-> r.objects]
    ELSE [game |-> [g EXCEPT !.messages =
                       add(@, <<"The {} can't be used.", g.inventory[i].name>>, "WHITE")],
          objects |-> objs]

\* pick_item_up as it would be if it left the item in the collection
pick_item_up_copies(i, g, objs) ==
    IF Len(g.inventory) >= INVENTORY_CAPACITY
    THEN [game |-> [g EXCEPT !.messages =
                       add(@, <<"Your inventory is full, can't pick up {}", objs[i].name>>, "RED")],
          objects |-> objs]
    ELSE [game |-> [g EXCEPT
                       !.messages = add(@, <<"You've just picked up a {}!", objs[i].name>>, "GREEN"),
                       !.inventory = Append(@, objs[i])],
          objects |-> objs]

\* pick_item_up as it would be if it refused only above the capacity
pick_item_up_above_capacity(i, g, objs) ==
    IF Len(g.inventory) > INVENTORY_CAPACITY
    THEN [game |-> [g EXCEPT !.messages =
                       add(@, <<"Your inventory is full, can't pick up {}", objs[i].name>>, "RED")],
          objects |-> objs]
    ELSE [game |-> [g EXCEPT
                       !.messages = add(@, <<"You've just picked up a {}!", objs[i].name>>, "GREEN"),
                       !.inventory = Append(@, objs[i])],
          objects |-> swap_remove(objs, i)]

pick_item_up(i, g, objs) ==
    IF Len(g.inventory) >= INVENTORY_CAPACITY
    THEN [game |-> [g EXCEPT !.messages =
                       add(@, <<"Your inventory is full, can't pick up {}", objs[i].name>>, "RED")],
          objects |-> objs]
    ELSE LET item == objs[i]
             taken == [g EXCEPT
                          !.messages = add(@, <<"You've just picked up a {}!", item.name>>, "GREEN"),
                          !.inventory = Append(@, item)]
         IN  [game |-> IF is_some(item.equipment)
                          /\ get_equipped_in_slot(item.equipment[1].slot, taken.inventory) = 0
                       THEN equip_at(taken, Len(taken.inventory))
                       ELSE taken,
              objects |-> swap_remove(objs, i)]

\* drop_item as it would be without the dequip
drop_item_as_held(i, g, objs) ==
    LET item == set_pos(g.inventory[i], objs[PLAYER].x, objs[PLAYER].y)
    IN  [game |-> [g EXCEPT !.inventory = remove(@, i),
                            !.messages = add(@, <<"You dropped a {}.", item.name>>, "YELLOW")],
         objects |-> Append(objs, item)]

drop_item(i, g, objs) ==
    LET held == g.inventory[i]
        r == IF is_some(held.equipment) THEN dequip(held, g.messages)
             ELSE [self |-> held, messages |-> g.messages]
        item == set_pos(r.self, objs[PLAYER].x, objs[PLAYER].y)
    IN  [game |-> [g EXCEPT !.inventory = remove(@, i),
                            !.messages = add(r.messages, <<"You dropped a {}.", item.name>>, "YELLOW")],
         objects |-> Append(objs, item)]

---------------------------------------------------------------------------
(* The AI state machine: object/ai.rs *)

\* round(d / distance) of move_towards, for distance = sqrt(dx*dx + dy*dy) > 0:
\* |d| / distance >= 1/2 exactly when 4 * d * d >= dx * dx + dy * dy.
rounded(d, dx, dy) ==
    IF 4 * d * d >= dx * dx + dy * dy
    THEN (IF d > 0 THEN 1 ELSE IF d < 0 THEN -1 ELSE 0)
    ELSE 0

move_towards(i, target_x, target_y, g, objs) ==
    LET dx == target_x - objs[i].x
        dy == target_y - objs[i].y
    IN  move_by(i, rounded(dx, dx, dy), rounded(dy, dx, dy), g, objs)

\* ai_basic as it would be without the test of the field of view
ai_basic_blind(monster_id, visible, g, objs) ==
    IF distance2(objs[monster_id], objs[PLAYER].x, objs[PLAYER].y) >= 2 * 2
    THEN [game |-> g,
          objects |-> move_towards(monster_id, objs[PLAYER].x, objs[PLAYER].y, g, objs),
          ai |-> Basic]
    ELSE IF is_some(objs[PLAYER].fighter) /\ objs[PLAYER].fighter[1].hp >= 0
    THEN LET r == attack(objs[monster_id], objs[PLAYER], g)
         IN  [game |-> r.game,
              objects |-> [objs EXCEPT ![monster_id] = r.self, ![PLAYER] = r.other],
              ai |-> Basic]
    ELSE [game |-> g, objects |-> objs, ai |-> Basic]

\* The result of a tick holds the game, the entity collection and the new Ai.
ai_basic(monster_id, visible, g, objs) ==
    IF pos(objs[monster_id]) \in visible
    THEN IF distance2(objs[monster_id], objs[PLAYER].x, objs[PLAYER].y) >= 2 * 2
         THEN [game |-> g,
               objects |-> move_towards(monster_id, objs[PLAYER].x, objs[PLAYER].y, g, objs),
               ai |-> Basic]
         ELSE IF is_some(objs[PLAYER].fighter) /\ objs[PLAYER].fighter[1].hp >= 0
         THEN LET r == attack(objs[monster_id], objs[PLAYER], g)
              IN  [game |-> r.game,
                   objects |-> [objs EXCEPT ![monster_id] = r.self, ![PLAYER] = r.other],
                   ai |-> Basic]
         ELSE [game |-> g, objects |-> objs, ai |-> Basic]
    ELSE [game |-> g, objects |-> objs, ai |-> Basic]

\* ai_confused as it would be with the test `lasts_for > 0`
ai_confused_above_zero(monster_id, dx, dy, g, objs, previous_ai, lasts_for) ==
    IF lasts_for > 0
    THEN [game |-> g, objects |-> move_by(monster_id, dx, dy, g, objs),
          ai |-> Confused(previous_ai, lasts_for - 1)]
    ELSE [game |-> [g EXCEPT !.messages =
                       add(@, <<"The {} is no longer confused!", objs[monster_id].name>>, "RED")],
          objects |-> objs, ai |-> previous_ai]

\* dx and dy are the two draws of gen_range(-1, 2).
ai_confused(monster_id, dx, dy, g, objs, previous_ai, lasts_for) ==
    IF lasts_for >= 0
    THEN [game |-> g, objects |-> move_by(monster_id, dx, dy, g, objs),
          ai |-> Confused(previous_ai, lasts_for - 1)]
    ELSE [game |-> [g EXCEPT !.messages =
                       add(@, <<"The {} is no longer confused!", objs[monster_id].name>>, "RED")],
          objects |-> objs, ai |-> previous_ai]

\* The result holds the game and the entity collection.
ai_take_turn(monster_id, dx, dy, visible, g, objs) ==
    IF is_some(objs[monster_id].ai)
    THEN LET ai == objs[monster_id].ai[1]
             taken == [objs EXCEPT ![monster_id].ai = None]
             r == IF ai.kind = "Basic"
                  THEN ai_basic(monster_id, visible, g, taken)
                  ELSE ai_confused(monster_id, dx, dy, g, taken, ai.previous_ai, ai.lasts_for)
         IN  [game |-> r.game,
              objects |-> [r.objects EXCEPT ![monster_id].ai = Some(r.ai)]]
    ELSE [game |-> g, objects |-> objs]

---------------------------------------------------------------------------
(* The level generator: game/map.rs *)

Rectangle_new(x, y, w, h) == [x1 |-> x, y1 |-> y, x2 |-> x + w, y2 |-> y + h]

center(r) == <<(r.x1 + r.x2) \div 2, (r.y1 + r.y2) \div 2>>

\* intersects as it would be if rooms could share a border
intersects_inside(a, b) == a.x1 < b.x2 /\ a.x2 > b.x1 /\ a.y1 < b.y2 /\ a.y2 > b.y1

intersects(a, b) == a.x1 <= b.x2 /\ a.x2 >= b.x1 /\ a.y1 <= b.y2 /\ a.y2 >= b.y1

\* carve_room as it would be if it emptied the border of the room too
carve_room_whole(room) ==
    {<<i, j>> : i \in room.x1..room.x2, j \in room.y1..room.y2}

\* The carving functions give the tiles they set to Tile::empty().
carve_room(room) ==
    {<<i, j>> : i \in (room.x1 + 1)..(room.x2 - 1), j \in (room.y1 + 1)..(room.y2 - 1)}

carve_h_tunnel(x1, x2, y) == {<<x, y>> : x \in Min(x1, x2)..Max(x1, x2)}

carve_v_tunnel(y1, y2, x) == {<<x, y>> : y \in Min(y1, y2)..Max(y1, y2)}

\* The draws (x, y, w, h) of a placement attempt that the model explores, of
\* w, h in ROOM_MIN_SIZE..ROOM_MAX_SIZE, x in 0..MAP_WIDTH - w - 1 and
\* y in 0..MAP_HEIGHT - h - 1.
RoomDraws == {[x |-> 0, y |-> 0, w |-> ROOM_MIN_SIZE, h |-> ROOM_MIN_SIZE]}

\* place_room as it would be without the tunnel to the room before
place_room_unjoined(layout, draw, coin) ==
    LET new_room == Rectangle_new(draw.x, draw.y, draw.w, draw.h)
        failed == \E k \in DOMAIN layout.rooms : intersects(new_room, layout.rooms[k])
    IN  IF failed THEN layout
        ELSE [rooms |-> Append(layout.rooms, new_room), tunnels |-> layout.tunnels]

\* One placement attempt of make_map's loop on the layout so far (the rooms
\* accepted and the tunnel tiles carved), for a draw and the coin of
\* rand::random().
place_room(layout, draw, coin) ==
    LET new_room == Rectangle_new(draw.x, draw.y, draw.w, draw.h)
        failed == \E k \in DOMAIN layout.rooms : intersects(new_room, layout.rooms[k])
        new == center(new_room)
    IN  IF failed THEN layout
        ELSE IF layout.rooms # <<>>
        THEN LET prev == center(layout.rooms[Len(layout.rooms)])
             IN  [rooms |-> Append(layout.rooms, new_room),
                  tunnels |-> layout.tunnels \cup
                      (IF coin
                       THEN carve_h_tunnel(prev[1], new[1], prev[2])
                            \cup carve_v_tunnel(prev[2], new[2], new[1])
                       ELSE carve_v_tunnel(prev[2], new[2], prev[1])
                            \cup carve_h_tunnel(prev[1], new[1], new[2]))]
        ELSE [rooms |-> Append(layout.rooms, new_room), tunnels |-> layout.tunnels]

\* The layouts that n placement attempts can give.
RECURSIVE layouts_after(_)
layouts_after(n) ==
    IF n = 0 THEN {[rooms |-> <<>>, tunnels |-> {}]}
    ELSE {place_room(layout, draw, coin) :
             layout \in layouts_after(n - 1), draw \in RoomDraws, coin \in BOOLEAN}

Layouts == layouts_after(MAX_ROOMS)

\* from_dungeon_level as it would be if the first entry that the level has
\* reached gave the value
from_dungeon_level_first(table, level) ==
    LET reached == {k \in DOMAIN table : level >= table[k][1]}
    IN  IF reached = {} THEN 0
        ELSE table[CHOOSE k \in reached : \A j \in reached : k <= j][2]

\* table is a sequence of <<level, value>> pairs in increasing order of level.
from_dungeon_level(table, level) ==
    LET reached == {k \in DOMAIN table : level >= table[k][1]}
    IN  IF reached = {} THEN 0
        ELSE table[CHOOSE k \in reached : \A j \in reached : j <= k][2]

max_monsters(level) == from_dungeon_level(<<<<1, 2>>, <<4, 3>>, <<6, 5>>>>, level)

max_items(level) == from_dungeon_level(<<<<1, 1>>, <<4, 2>>>>, level)

\* The weights of fill_with_objects' two WeightedChoice tables.
monster_chances(level) ==
    [Orc |-> 80,
     Troll |-> from_dungeon_level(<<<<3, 15>>, <<5, 30>>, <<7, 60>>>>, level)]

item_chances(level) ==
    [Heal |-> 35,
     Sword |-> from_dungeon_level(<<<<4, 5>>>>, level),
     Shield |-> from_dungeon_level(<<<<8, 15>>>>, level),
     Lightning |-> from_dungeon_level(<<<<4, 25>>>>, level),
     Fireball |-> from_dungeon_level(<<<<6, 25>>>>, level),
     Confusion |-> from_dungeon_level(<<<<2, 10>>>>, level)]

\* What a WeightedChoice can draw: the entries of positive weight.
weighted_choices(chances) == {k \in DOMAIN chances : chances[k] > 0}

\* The cells (x, y) that the model draws for a monster or an item, of
\* x in room.x1 + 1..room.x2 - 1 and y in room.y1 + 1..room.y2 - 1.
spawn_cells(room) ==
    {<<x, center(room)[2]>> :
        x \in Max(room.x1 + 1, center(room)[1] - SpawnSpan)
               ..Min(room.x2 - 1, center(room)[1] + SpawnSpan)}

\* The collections that n more monster draws can give.
RECURSIVE place_monsters(_, _, _, _, _)
place_monsters(n, room, map, objs, level) ==
    IF n = 0 THEN {objs}
    ELSE UNION {place_monsters(n - 1, room, map, next, level) :
                   next \in {IF is_blocked(c[1], c[2], map, objs) THEN objs
                              ELSE Append(objs, Monster_create(kind, c[1], c[2])) :
                                 c \in spawn_cells(room),
                                 kind \in weighted_choices(monster_chances(level))}}

RECURSIVE place_items(_, _, _, _, _)
place_items(n, room, map, objs, level) ==
    IF n = 0 THEN {objs}
    ELSE UNION {place_items(n - 1, room, map, next, level) :
                   next \in {IF is_blocked(c[1], c[2], map, objs) THEN objs
                              ELSE Append(objs, [Item_create(kind, c[1], c[2])
                                                    EXCEPT !.always_visible = TRUE]) :
                                 c \in spawn_cells(room),
                                 kind \in weighted_choices(item_chances(level))}}

\* The collections that fill_with_objects can give.
fill_with_objects(room, map, objs, level) ==
    UNION {UNION {place_items(num_items, room, map, with_monsters, level) :
                     num_items \in 0..max_items(level)} :
              with_monsters \in UNION {place_monsters(num_monsters, room, map, objs, level) :
                                          num_monsters \in 0..max_monsters(level)}}

\* fill_with_objects over the rooms from index k on.
RECURSIVE fill_rooms(_, _, _, _, _)
fill_rooms(k, accepted, map, objs, level) ==
    IF k > Len(accepted) THEN {objs}
    ELSE UNION {fill_rooms(k + 1, accepted, map, filled, level) :
                   filled \in fill_with_objects(accepted[k], map, objs, level)}

\* The map make_map carves for a layout, every tile unexplored
carved(layout) ==
    [empty |-> layout.tunnels \cup
                  UNION {carve_room(layout.rooms[k]) : k \in DOMAIN layout.rooms},
     explored |-> {}]

\* stairs_of as it would be with the stairs in the first room
stairs_of_first_room(layout) ==
    LET first_room == center(layout.rooms[1])
    IN  [Object_new(first_room[1], first_room[2], "<", "WHITE", "stairs", FALSE)
            EXCEPT !.always_visible = TRUE]

\* The stairs make_map puts on the center of the last room
stairs_of(layout) ==
    LET last_room == center(layout.rooms[Len(layout.rooms)])
    IN  [Object_new(last_room[1], last_room[2], "<", "WHITE", "stairs", FALSE)
            EXCEPT !.always_visible = TRUE]

\* The results of make_map whose first loop gives the layout, each the new
\* map and the entity collection. The tiles of all rooms are carved before
\* any room is filled: fill_with_objects reads only tiles of its own room,
\* which carve_room empties just before.
make_map_on(layout, objs, level) ==
    LET start == center(layout.rooms[1])
        player == set_pos(objs[PLAYER], start[1], start[2])
    IN  {[map |-> carved(layout), objects |-> Append(filled, stairs_of(layout))] :
            filled \in fill_rooms(1, layout.rooms, carved(layout), <<player>>, level)}

\* The results of make_map
make_map(objs, level) ==
    UNION {make_map_on(layout, objs, level) : layout \in {l \in Layouts : l.rooms # <<>>}}

---------------------------------------------------------------------------
(* Field of view: vision_update and initialize_fov of game.rs *)

\* The tiles tcod's compute_fov marks from (x, y): in the model's maps, whose
\* open area is one convex room, every empty tile and every wall next to one
\* (FOV_LIGHT_WALLS) within TORCH_RADIUS.
compute_fov(map, x, y) ==
    {t \in UNION {{<<e[1] + dx, e[2] + dy>> : dx \in -1..1, dy \in -1..1} : e \in map.empty} :
        (t[1] - x) * (t[1] - x) + (t[2] - y) * (t[2] - y) <= TORCH_RADIUS * TORCH_RADIUS}

\* The result holds the map and the field of view.
vision_update(visible, map, player) ==
    LET seen == compute_fov(map, player.x, player.y)
    IN  [fov |-> seen, map |-> [map EXCEPT !.explored = @ \cup seen]]

---------------------------------------------------------------------------
(* Leveling, descending and persistence: game.rs *)

\* level_up_check as it would be with the test `xp > level_up_xp`
level_up_check_above(g, objs) ==
    LET player == objs[PLAYER]
        xp == IF is_some(player.fighter) THEN player.fighter[1].xp ELSE 0
    IN  IF xp > level_up_xp(player)
        THEN [game |-> [g EXCEPT !.messages =
                           add(@, <<"Your battle skills grow stronger! You reached level {}!",
                                    player.level + 1>>, "YELLOW")],
              objects |-> [objs EXCEPT ![PLAYER].level = @ + 1],
              leveled |-> TRUE]
        ELSE [game |-> g, objects |-> objs, leveled |-> FALSE]

\* The part of level_up before its menu loop; the result holds the game, the
\* entity collection and whether the menu follows.
level_up_check(g, objs) ==
    LET player == objs[PLAYER]
        xp == IF is_some(player.fighter) THEN player.fighter[1].xp ELSE 0
    IN  IF xp >= level_up_xp(player)
        THEN [game |-> [g EXCEPT !.messages =
                           add(@, <<"Your battle skills grow stronger! You reached level {}!",
                                    player.level + 1>>, "YELLOW")],
              objects |-> [objs EXCEPT ![PLAYER].level = @ + 1],
              leveled |-> TRUE]
        ELSE [game |-> g, objects |-> objs, leveled |-> FALSE]

\* level_up_apply as it would be if Constitution raised base_max_hp alone
level_up_apply_max_only(selected, threshold, fighter) ==
    LET paid == [fighter EXCEPT !.xp = @ - threshold]
    IN  CASE selected = 0 -> [paid EXCEPT !.base_max_hp = @ + 20]
          [] selected = 1 -> [paid EXCEPT !.base_power = @ + 1]
          [] selected = 2 -> [paid EXCEPT !.base_defense = @ + 1]

\* The part of level_up after its menu loop, for the choice the menu returned
\* and the threshold computed on entry.
level_up_apply(selected, threshold, fighter) ==
    LET paid == [fighter EXCEPT !.xp = @ - threshold]
    IN  CASE selected = 0 -> [paid EXCEPT !.base_max_hp = @ + 20, !.hp = @ + 20]
          [] selected = 1 -> [paid EXCEPT !.base_power = @ + 1]
          [] selected = 2 -> [paid EXCEPT !.base_defense = @ + 1]

\* What menu returns for a key: Some(index) for a letter below the number of
\* options, None for any other key. The keys are the letters 0.. and -1 for
\* a key that is no letter.
menu(key, options) == IF key >= 0 /\ key < options THEN Some(key) ELSE None

\* What inventory_menu returns for a key
inventory_menu(inventory, key) ==
    IF Len(inventory) > 0 THEN menu(key, Len(inventory)) ELSE None

\* next_level as it would be if the rest restored all of max_hp
next_level_full_rest(g, objs) ==
    LET rested == [g EXCEPT !.messages =
                      add(@, <<"You take a moment to rest, and recover your strength.">>, "VIOLET")]
        heal_hp == max_hp(objs[PLAYER], rested)
        healed == [objs EXCEPT ![PLAYER] = heal(@, heal_hp, rested)]
        deeper == [rested EXCEPT
                      !.messages = add(@, <<"After a rare moment of peace, you descend deeper into the heart of the dungeon...">>, "RED"),
                      !.dungeon_level = @ + 1]
    IN  {[game |-> [deeper EXCEPT !.map = made.map], objects |-> made.objects] :
            made \in make_map(healed, deeper.dungeon_level)}

\* The results of next_level, each the game and the entity collection.
next_level(g, objs) ==
    LET rested == [g EXCEPT !.messages =
                      add(@, <<"You take a moment to rest, and recover your strength.">>, "VIOLET")]
        heal_hp == max_hp(objs[PLAYER], rested) \div 2
        healed == [objs EXCEPT ![PLAYER] = heal(@, heal_hp, rested)]
        deeper == [rested EXCEPT
                      !.messages = add(@, <<"After a rare moment of peace, you descend deeper into the heart of the dungeon...">>, "RED"),
                      !.dungeon_level = @ + 1]
    IN  {[game |-> [deeper EXCEPT !.map = made.map], objects |-> made.objects] :
            made \in make_map(healed, deeper.dungeon_level)}

\* The player and the dagger that new_game creates
new_player ==
    [Object_new(0, 0, "@", "WHITE", "player", TRUE) EXCEPT
        !.alive = TRUE,
        !.fighter = Some(Fighter(100, 100, 1, 2, 0, "Player"))]

new_dagger ==
    [Object_new(0, 0, "-", "SKY", "dagger", FALSE) EXCEPT
        !.item = Some("Sword"),
        !.equipment = Some(Equipment("RightHand", TRUE, 0, 0, 2))]

welcome ==
    add(<<>>, <<"Welcome stranger! Prepare to perish in the Tombs of the Ancient Kings.">>, "RED")

\* The results of new_game
new_game ==
    {[game |-> [map |-> made.map, messages |-> welcome,
                inventory |-> <<new_dagger>>, dungeon_level |-> 1],
      objects |-> made.objects] : made \in make_map(<<new_player>>, 1)}

---------------------------------------------------------------------------
(* Persistence: save_game and load_game of game.rs, and the serde_json     *)
(* document they write and parse. A JSON value is a record of its kind t   *)
(* and its content: a boolean, a number, a string, the sequence of an      *)
(* array's items, or the function of an object from its keys to its        *)
(* values; a text that ends before its value is complete has the kind     *)
(* "eof". A Color and a char are written as the model names them, and the  *)
(* String of a message as the model's text of it.                          *)

Ok(value) == [ok |-> TRUE, value |-> value]
Err(error) == [ok |-> FALSE, error |-> error]

json_null == [t |-> "null"]
json_bool(b) == [t |-> "bool", bool |-> b]
json_num(n) == [t |-> "num", num |-> n]
json_str(s) == [t |-> "str", str |-> s]
json_arr(items) == [t |-> "arr", arr |-> items]
json_obj(members) == [t |-> "obj", obj |-> members]

\* What the derived Serialize writes for each type
serialize_fighter(f) ==
    json_obj([base_max_hp |-> json_num(f.base_max_hp), hp |-> json_num(f.hp),
              base_defense |-> json_num(f.base_defense),
              base_power |-> json_num(f.base_power), xp |-> json_num(f.xp),
              on_death |-> json_str(f.on_death)])

RECURSIVE serialize_ai(_)
serialize_ai(ai) ==
    IF ai.kind = "Basic" THEN json_str("Basic")
    ELSE json_obj([Confused |->
             json_obj([previous_ai |-> serialize_ai(ai.previous_ai),
                       lasts_for |-> json_num(ai.lasts_for)])])

serialize_equipment(e) ==
    json_obj([slot |-> json_str(e.slot), equipped |-> json_bool(e.equipped),
              max_hp_bonus |-> json_num(e.max_hp_bonus),
              defense_bonus |-> json_num(e.defense_bonus),
              power_bonus |-> json_num(e.power_bonus)])

\* serialize_object as it would be if the equipment component were skipped
serialize_object_bare(o) ==
    json_obj([x |-> json_num(o.x), y |-> json_num(o.y), glyph |-> json_str(o.glyph),
              color |-> json_str(o.color), name |-> json_str(o.name),
              blocks |-> json_bool(o.blocks), alive |-> json_bool(o.alive),
              level |-> json_num(o.level),
              fighter |-> IF is_some(o.fighter)
                          THEN serialize_fighter(unwrap(o.fighter)) ELSE json_null,
              ai |-> IF is_some(o.ai) THEN serialize_ai(unwrap(o.ai)) ELSE json_null,
              item |-> IF is_some(o.item) THEN json_str(unwrap(o.item)) ELSE json_null,
              equipment |-> json_null,
              always_visible |-> json_bool(o.always_visible)])

serialize_object(o) ==
    json_obj([x |-> json_num(o.x), y |-> json_num(o.y), glyph |-> json_str(o.glyph),
              color |-> json_str(o.color), name |-> json_str(o.name),
              blocks |-> json_bool(o.blocks), alive |-> json_bool(o.alive),
              level |-> json_num(o.level),
              fighter |-> IF is_some(o.fighter)
                          THEN serialize_fighter(unwrap(o.fighter)) ELSE json_null,
              ai |-> IF is_some(o.ai) THEN serialize_ai(unwrap(o.ai)) ELSE json_null,
              item |-> IF is_some(o.item) THEN json_str(unwrap(o.item)) ELSE json_null,
              equipment |-> IF is_some(o.equipment)
                            THEN serialize_equipment(unwrap(o.equipment)) ELSE json_null,
              always_visible |-> json_bool(o.always_visible)])

serialize_objects(objs) == json_arr([i \in DOMAIN objs |-> serialize_object(objs[i])])

\* The Tile at map[x][y]
tile_at(map, p) ==
    [blocked |-> p \notin map.empty, explored |-> p \in map.explored,
     block_sight |-> p \notin map.empty]

serialize_tile(tile) ==
    json_obj([blocked |-> json_bool(tile.blocked), explored |-> json_bool(tile.explored),
              block_sight |-> json_bool(tile.block_sight)])

\* The array of MAP_WIDTH arrays of MAP_HEIGHT tiles. Of its items the model
\* writes down those that are not the unexplored wall, every other item being
\* {"blocked":true,"explored":false,"block_sight":true}.
serialize_map(map) ==
    [t |-> "arr",
     arr |-> [p \in map.empty \cup map.explored |-> serialize_tile(tile_at(map, p))]]

serialize_messages(messages) ==
    json_obj([messages |->
        json_arr([i \in DOMAIN messages |->
            json_arr(<<json_str(messages[i].text), json_str(messages[i].color)>>)])])

serialize_game(g) ==
    json_obj([map |-> serialize_map(g.map),
              messages |-> serialize_messages(g.messages),
              inventory |-> serialize_objects(g.inventory),
              dungeon_level |-> json_num(g.dungeon_level)])

\* serde_json::to_string(&(game, objects))
to_string(g, objs) == json_arr(<<serialize_game(g), serialize_objects(objs)>>)

\* Whether the derived Deserialize accepts a value for each type: a struct
\* needs its members (an Option's may be missing or null, others are
\* ignored), each of its type.
is_i32(v) == v.t = "num" /\ v.num \in (-2147483647 - 1)..2147483647
\* (the model holds no number above u32::MAX)
is_u32(v) == v.t = "num" /\ v.num >= 0
is_bool(v) == v.t = "bool"
is_string(v) == v.t = "str"
is_variant(v, variants) == v.t = "str" /\ v.str \in variants
is_struct(v, members) == v.t = "obj" /\ members \subseteq DOMAIN v.obj
is_absent(v, member) == member \notin DOMAIN v.obj \/ v.obj[member].t = "null"

is_fighter(v) ==
    /\ is_struct(v, {"base_max_hp", "hp", "base_defense", "base_power", "xp", "on_death"})
    /\ is_i32(v.obj.base_max_hp) /\ is_i32(v.obj.hp) /\ is_i32(v.obj.base_defense)
    /\ is_i32(v.obj.base_power) /\ is_i32(v.obj.xp)
    /\ is_variant(v.obj.on_death, {"Player", "Monster"})

RECURSIVE is_ai(_)
is_ai(v) ==
    \/ is_variant(v, {"Basic"})
    \/ /\ v.t = "obj" /\ DOMAIN v.obj = {"Confused"}
       /\ is_struct(v.obj.Confused, {"previous_ai", "lasts_for"})
       /\ is_ai(v.obj.Confused.obj.previous_ai)
       /\ is_i32(v.obj.Confused.obj.lasts_for)

is_equipment(v) ==
    /\ is_struct(v, {"slot", "equipped", "max_hp_bonus", "defense_bonus", "power_bonus"})
    /\ is_variant(v.obj.slot, {"LeftHand", "RightHand", "Head"})
    /\ is_bool(v.obj.equipped)
    /\ is_i32(v.obj.max_hp_bonus) /\ is_i32(v.obj.defense_bonus) /\ is_i32(v.obj.power_bonus)

is_object(v) ==
    /\ is_struct(v, {"x", "y", "glyph", "color", "name", "blocks", "alive", "level",
                     "always_visible"})
    /\ is_i32(v.obj.x) /\ is_i32(v.obj.y) /\ is_string(v.obj.glyph) /\ is_string(v.obj.color)
    /\ is_string(v.obj.name) /\ is_bool(v.obj.blocks) /\ is_bool(v.obj.alive)
    /\ is_i32(v.obj.level) /\ is_bool(v.obj.always_visible)
    /\ is_absent(v, "fighter") \/ is_fighter(v.obj.fighter)
    /\ is_absent(v, "ai") \/ is_ai(v.obj.ai)
    /\ \/ is_absent(v, "item")
       \/ is_variant(v.obj.item, {"Heal", "Lightning", "Confusion", "Fireball", "Sword", "Shield"})
    /\ is_absent(v, "equipment") \/ is_equipment(v.obj.equipment)

is_objects(v) == v.t = "arr" /\ \A i \in DOMAIN v.arr : is_object(v.arr[i])

is_tile(v) ==
    /\ is_struct(v, {"blocked", "explored", "block_sight"})
    /\ is_bool(v.obj.blocked) /\ is_bool(v.obj.explored) /\ is_bool(v.obj.block_sight)

is_map(v) == v.t = "arr" /\ \A p \in DOMAIN v.arr : is_tile(v.arr[p])

is_messages(v) ==
    /\ is_struct(v, {"messages"})
    /\ v.obj.messages.t = "arr"
    /\ \A i \in DOMAIN v.obj.messages.arr :
          LET pair == v.obj.messages.arr[i]
          IN  /\ pair.t = "arr" /\ DOMAIN pair.arr = 1..2
              /\ is_string(pair.arr[1]) /\ is_string(pair.arr[2])

is_game(v) ==
    /\ is_struct(v, {"map", "messages", "inventory", "dungeon_level"})
    /\ is_map(v.obj.map) /\ is_messages(v.obj.messages) /\ is_objects(v.obj.inventory)
    /\ is_u32(v.obj.dungeon_level)

\* What the derived Deserialize builds from a value it accepts
deserialize_fighter(v) ==
    Fighter(v.obj.base_max_hp.num, v.obj.hp.num, v.obj.base_defense.num, v.obj.base_power.num,
            v.obj.xp.num, v.obj.on_death.str)

RECURSIVE deserialize_ai(_)
deserialize_ai(v) ==
    IF v.t = "str" THEN Basic
    ELSE Confused(deserialize_ai(v.obj.Confused.obj.previous_ai), v.obj.Confused.obj.lasts_for.num)

deserialize_equipment(v) ==
    Equipment(v.obj.slot.str, v.obj.equipped.bool, v.obj.max_hp_bonus.num, v.obj.defense_bonus.num,
              v.obj.power_bonus.num)

deserialize_object(v) ==
    [x |-> v.obj.x.num, y |-> v.obj.y.num, glyph |-> v.obj.glyph.str, color |-> v.obj.color.str,
     name |-> v.obj.name.str, blocks |-> v.obj.blocks.bool, alive |-> v.obj.alive.bool,
     level |-> v.obj.level.num,
     fighter |-> IF is_absent(v, "fighter") THEN None
                 ELSE Some(deserialize_fighter(v.obj.fighter)),
     ai |-> IF is_absent(v, "ai") THEN None ELSE Some(deserialize_ai(v.obj.ai)),
     item |-> IF is_absent(v, "item") THEN None ELSE Some(v.obj.item.str),
     equipment |-> IF is_absent(v, "equipment") THEN None
                   ELSE Some(deserialize_equipment(v.obj.equipment)),
     always_visible |-> v.obj.always_visible.bool]

deserialize_objects(v) == [i \in DOMAIN v.arr |-> deserialize_object(v.arr[i])]

deserialize_map(v) ==
    [empty |-> {p \in DOMAIN v.arr : ~v.arr[p].obj.blocked.bool},
     explored |-> {p \in DOMAIN v.arr : v.arr[p].obj.explored.bool}]

deserialize_messages(v) ==
    [i \in DOMAIN v.obj.messages.arr |->
        [text |-> v.obj.messages.arr[i].arr[1].str,
         color |-> v.obj.messages.arr[i].arr[2].str]]

deserialize_game(v) ==
    [map |-> deserialize_map(v.obj.map), messages |-> deserialize_messages(v.obj.messages),
     inventory |-> deserialize_objects(v.obj.inventory),
     dungeon_level |-> v.obj.dungeon_level.num]

\* serde_json::from_str::<(Game, Vec<Object>)>
from_str(text) ==
    IF /\ text.t = "arr" /\ DOMAIN text.arr = 1..2
       /\ is_game(text.arr[1]) /\ is_objects(text.arr[2])
    THEN Ok([game |-> deserialize_game(text.arr[1]),
             objects |-> deserialize_objects(text.arr[2])])
    ELSE Err("serde_json")

\* What the file system can do to a save: write it, refuse to create the
\* file, or fail in write_all after the file was created empty.
DiskOutcomes == {"written", "create fails", "write fails"}

\* A text cut short
cut_short == [t |-> "eof"]

\* save_game as it would be if it wrote the player alone of the collection
save_game_player_only(g, objs, file, disk) ==
    LET save_data == to_string(g, SubSeq(objs, 1, 1))
    IN  IF disk = "create fails" THEN [result |-> Err("File::create"), file |-> file]
        ELSE IF disk = "write fails"
        THEN [result |-> Err("write_all"), file |-> Some(cut_short)]
        ELSE [result |-> Ok(<<>>), file |-> Some(save_data)]

\* save_game as it would be if it dropped the error of write_all
save_game_swallows(g, objs, file, disk) ==
    LET save_data == to_string(g, objs)
    IN  IF disk = "create fails" THEN [result |-> Err("File::create"), file |-> file]
        ELSE IF disk = "write fails"
        THEN [result |-> Ok(<<>>), file |-> Some(cut_short)]
        ELSE [result |-> Ok(<<>>), file |-> Some(save_data)]

\* The result of save_game and the file it leaves, for the file there was
save_game(g, objs, file, disk) ==
    LET save_data == to_string(g, objs)
    IN  IF disk = "create fails" THEN [result |-> Err("File::create"), file |-> file]
        ELSE IF disk = "write fails"
        THEN [result |-> Err("write_all"), file |-> Some(cut_short)]
        ELSE [result |-> Ok(<<>>), file |-> Some(save_data)]

\* load_game as it would be if it took what it could read for readable
load_game_whatever_is_there(file, readable) ==
    IF is_none(file) THEN Err("File::open")
    ELSE from_str(unwrap(file))

\* The result of load_game on a file, which may not be readable
load_game(file, readable) ==
    IF is_none(file) THEN Err("File::open")
    ELSE IF ~readable THEN Err("read_to_string")
    ELSE from_str(unwrap(file))

---------------------------------------------------------------------------
(* Saved sessions: the documents that "Continue last game" finds in         *)
(* SAVEGAME_FILE. Each is a session of an earlier run, saved on its Exit:  *)
(* the player stands north of the stairs of a level it has seen, with the  *)
(* monsters west and east of it, the dagger and the scrolls it picked up.  *)

\* fighter is the player's Fighter; west and east are <<kind, hp>> of the
\* monster on that side, or <<>>; armed tells whether the dagger is equipped;
\* held are the kinds of the scrolls held.
saved_session(level, fighter, west, east, armed, held) ==
    LET player == [new_player EXCEPT !.fighter = Some(fighter)]
        layout == CHOOSE l \in Layouts : l.rooms # <<>>
        x == center(layout.rooms[1])[1]
        y == center(layout.rooms[1])[2] - 1
        monster(side, dx) ==
            IF side = <<>> THEN <<>>
            ELSE <<[Monster_create(side[1], x + dx, y) EXCEPT !.fighter[1].hp = side[2]]>>
    IN  [game |-> [map |-> [carved(layout) EXCEPT
                              !.explored = compute_fov(carved(layout), x, y)],
                   messages |-> welcome,
                   inventory |-> <<[new_dagger EXCEPT !.equipment[1].equipped = armed]>> \o
                       [k \in DOMAIN held |->
                           [Item_create(held[k], x, y) EXCEPT !.always_visible = TRUE]],
                   dungeon_level |-> level],
         objects |-> <<set_pos(player, x, y)>>
                     \o monster(west, -1) \o monster(east, 1)
                     \o <<stairs_of(layout)>>]

\* One blow from death and one kill from the second level, between two orcs
last_stand ==
    saved_session(3, Fighter(100, 2, 1, 2, 315, "Player"),
                  <<"Orc", 4>>, <<"Orc", 20>>, TRUE, <<>>)

\* One kill from the second level, the dagger put away, next to a wounded orc
\* and a wounded troll
veteran ==
    saved_session(3, Fighter(100, 100, 1, 2, 315, "Player"),
                  <<"Orc", 2>>, <<"Troll", 2>>, FALSE, <<>>)

\* Between two orcs with a scroll of lightning bolt and a scroll of fireball
mage ==
    saved_session(6, Fighter(100, 100, 1, 2, 315, "Player"),
                  <<"Orc", 20>>, <<"Orc", 20>>, TRUE, <<"Lightning", "Fireball">>)

\* Next to one orc with a scroll of confusion
trickster ==
    saved_session(2, Fighter(100, 100, 1, 2, 0, "Player"),
                  <<"Orc", 20>>, <<>>, TRUE, <<"Confusion">>)

saved_sessions == {last_stand, veteran, mage, trickster}

---------------------------------------------------------------------------
(* The session loop: play_game and handle_keys of game.rs *)

\* The session new_game or load_game hands to play_game
Enter(session) ==
    /\ game = session.game
    /\ objects = session.objects
    /\ fov = {}
    /\ pc = "loop"
    /\ action = "None"
    /\ id = 0
    /\ previous_player_position = <<-1, -1>>
    /\ level_up_xp_ = 0
    /\ ticks = 0
    /\ rooms = <<>>
    /\ cursor = 0
    /\ rounds = 0
    /\ skipped = 0

\* main_menu's "Play a new game"
NewGame ==
    /\ \E session \in new_game : Enter(session)
    /\ savegame = None

\* main_menu's "Continue last game" on the document of a saved session
Continue(sessions) ==
    \E session \in sessions :
        /\ savegame = Some(to_string(session.game, session.objects))
        /\ load_game(savegame, TRUE).ok
        /\ Enter(load_game(savegame, TRUE).value)

Init == NewGame \/ Continue(saved_sessions)

\* The head of a cycle: vision_update when the player has moved, then
\* level_up up to its menu.
BeginCycle ==
    /\ pc = "loop"
    /\ LET seen == IF pos(objects[PLAYER]) # previous_player_position
                   THEN vision_update(fov, game.map, objects[PLAYER])
                   ELSE [fov |-> fov, map |-> game.map]
           r == level_up_check([game EXCEPT !.map = seen.map], objects)
       IN  /\ fov' = seen.fov
           /\ game' = r.game
           /\ objects' = r.objects
           /\ pc' = IF r.leveled THEN "menu" ELSE "keys"
           /\ level_up_xp_' = IF r.leveled THEN level_up_xp(objects[PLAYER]) ELSE 0
    /\ action' = "None"
    /\ UNCHANGED <<id, previous_player_position, savegame, ticks, rooms, cursor, rounds, skipped>>

\* LevelUpRound as it would be if the message of the new level were logged
\* in every round of the loop
LevelUpRound_logs_each_round(keys) ==
    /\ pc = "menu"
    /\ \E key \in keys :
          LET selected == menu(key, 3)
          IN  IF is_none(selected)
              THEN /\ rounds' = Min(rounds + 1, MenuRounds)
                   /\ UNCHANGED <<objects, pc, level_up_xp_>>
              ELSE /\ objects' = [objects EXCEPT ![PLAYER].fighter[1] =
                                     level_up_apply(selected[1], level_up_xp_, @)]
                   /\ pc' = "keys"
                   /\ level_up_xp_' = 0
                   /\ rounds' = 0
    /\ game' = [game EXCEPT !.messages =
                   add(@, <<"Your battle skills grow stronger! You reached level {}!",
                            objects[PLAYER].level>>, "YELLOW")]
    /\ UNCHANGED <<fov, action, id, previous_player_position, savegame, ticks, rooms, cursor, skipped>>

\* One round of level_up's menu loop, the key pressed one of keys
LevelUpRound(keys) ==
    /\ pc = "menu"
    /\ \E key \in keys :
          LET selected == menu(key, 3)
          IN  IF is_none(selected)
              THEN /\ rounds' = Min(rounds + 1, MenuRounds)
                   /\ UNCHANGED <<objects, pc, level_up_xp_>>
              ELSE /\ objects' = [objects EXCEPT ![PLAYER].fighter[1] =
                                     level_up_apply(selected[1], level_up_xp_, @)]
                   /\ pc' = "keys"
                   /\ level_up_xp_' = 0
                   /\ rounds' = 0
    /\ UNCHANGED <<game, fov, action, id, previous_player_position, savegame, ticks, rooms, cursor, skipped>>

\* The keys of the level-up menu: its three letters, another letter, and a
\* key that is no letter
LevelUpMenu == LevelUpRound(-1..3)

\* Whether the key that took the collection from objs to next cast confusion
just_confused(objs, next) ==
    \E i \in DOMAIN objs \cap DOMAIN next :
        /\ is_some(next[i].ai) /\ next[i].ai # objs[i].ai
        /\ next[i].ai[1].kind = "Confused"
        /\ next[i].ai[1].lasts_for = CONFUSE_NUM_TURNS

\* AfterKeys as it would be if the sweep followed every action but Exit
AfterKeys_always_sweeps(result, g, objs) ==
    /\ game' = g
    /\ objects' = objs
    /\ action' = result
    /\ previous_player_position' = pos(objects[PLAYER])
    /\ IF result = "Exit"
       THEN /\ \E disk \in DiskOutcomes :
                  LET saved == save_game(g, objs, savegame, disk)
                  IN  /\ savegame' = saved.file
                      /\ pc' = IF saved.result.ok THEN "exit" ELSE "panic"
            /\ id' = id
       ELSE /\ savegame' = savegame
            /\ IF objs[PLAYER].alive /\ Len(objs) >= 2
               THEN pc' = "sweep" /\ id' = 2
               ELSE pc' = "loop" /\ id' = id
    /\ ticks' = IF just_confused(objects, objs) THEN 0 ELSE ticks
    /\ UNCHANGED <<fov, level_up_xp_, rooms, cursor, rounds, skipped>>

\* play_game after handle_keys returned `result` with the game g and the
\* collection objs
AfterKeys(result, g, objs) ==
    /\ game' = g
    /\ objects' = objs
    /\ action' = result
    /\ previous_player_position' = pos(objects[PLAYER])
    /\ IF result = "Exit"
       THEN /\ \E disk \in DiskOutcomes :
                  LET saved == save_game(g, objs, savegame, disk)
                  IN  /\ savegame' = saved.file
                      /\ pc' = IF saved.result.ok THEN "exit" ELSE "panic"
            /\ id' = id
       ELSE /\ savegame' = savegame
            /\ IF result # "DidntTakeTurn" /\ objs[PLAYER].alive /\ Len(objs) >= 2
               THEN pc' = "sweep" /\ id' = 2
               ELSE pc' = "loop" /\ id' = id
    /\ ticks' = IF just_confused(objects, objs) THEN 0 ELSE ticks
    /\ UNCHANGED <<fov, level_up_xp_, rooms, cursor, rounds, skipped>>

\* handle_keys reads a key while the log is short of `limit` messages.
Reading(limit) == pc = "keys" /\ Len(game.messages) < limit

\* The directions of the eight movement keys, and of Left and Right
Directions == {<<dx, dy>> : dx \in -1..1, dy \in -1..1} \ {<<0, 0>>}
LeftRight == {<<-1, 0>>, <<1, 0>>}

KeyEscape ==
    /\ pc = "keys"
    /\ AfterKeys("Exit", game, objects)

\* KeyPickUp as it would be if anything on the player's tile could be picked
\* up
KeyPickUp_anything(limit) ==
    /\ Reading(limit) /\ objects[PLAYER].alive
    /\ LET here(o) == pos(o) = pos(objects[PLAYER])
           item_id == position({i \in DOMAIN objects : here(objects[i])})
           r == IF item_id # 0 THEN pick_item_up(item_id, game, objects)
                ELSE [game |-> game, objects |-> objects]
       IN  AfterKeys("DidntTakeTurn", r.game, r.objects)

KeyPickUp(limit) ==
    /\ Reading(limit) /\ objects[PLAYER].alive
    /\ LET here(o) == pos(o) = pos(objects[PLAYER]) /\ is_some(o.item)
           item_id == position({i \in DOMAIN objects : here(objects[i])})
           r == IF item_id # 0 THEN pick_item_up(item_id, game, objects)
                ELSE [game |-> game, objects |-> objects]
       IN  AfterKeys("DidntTakeTurn", r.game, r.objects)

KeyDrop(limit) ==
    /\ Reading(limit) /\ objects[PLAYER].alive
    /\ \E key \in -1..Len(game.inventory) :
          LET selected == inventory_menu(game.inventory, key)
              r == IF is_some(selected) THEN drop_item(selected[1] + 1, game, objects)
                   ELSE [game |-> game, objects |-> objects]
          IN  AfterKeys("DidntTakeTurn", r.game, r.objects)

\* KeyUse as it would be if using an item took the turn
KeyUse_takes_turn(limit) ==
    /\ Reading(limit) /\ objects[PLAYER].alive
    /\ \E key \in -1..Len(game.inventory) :
          LET selected == inventory_menu(game.inventory, key)
          IN  IF is_some(selected)
              THEN \E input \in use_inputs(selected[1] + 1, fov, game, objects) :
                      LET r == use_item(selected[1] + 1, input, fov, game, objects)
                      IN  AfterKeys("TookTurn", r.game, r.objects)
              ELSE AfterKeys("DidntTakeTurn", game, objects)

KeyUse(limit) ==
    /\ Reading(limit) /\ objects[PLAYER].alive
    /\ \E key \in -1..Len(game.inventory) :
          LET selected == inventory_menu(game.inventory, key)
          IN  IF is_some(selected)
              THEN \E input \in use_inputs(selected[1] + 1, fov, game, objects) :
                      LET r == use_item(selected[1] + 1, input, fov, game, objects)
                      IN  AfterKeys("DidntTakeTurn", r.game, r.objects)
              ELSE AfterKeys("DidntTakeTurn", game, objects)

\* Whether the player stands where an entity named "stairs" is
player_on_stairs(objs) ==
    \E i \in DOMAIN objs : pos(objs[i]) = pos(objs[PLAYER]) /\ objs[i].name = "stairs"

\* descend as it would be if the stairs were not looked for
descend_anywhere(g, objs) == next_level(g, objs)

\* What the arm of "<" can give, each the game and the entity collection
descend(g, objs) ==
    IF player_on_stairs(objs) THEN next_level(g, objs)
    ELSE {[game |-> g, objects |-> objs]}

KeyDescend(limit) ==
    /\ Reading(limit) /\ objects[PLAYER].alive
    /\ \E r \in descend(game, objects) : AfterKeys("DidntTakeTurn", r.game, r.objects)

KeyWait(limit) ==
    /\ Reading(limit) /\ objects[PLAYER].alive
    /\ AfterKeys("TookTurn", game, objects)

KeyMove(limit, keys) ==
    /\ Reading(limit) /\ objects[PLAYER].alive
    /\ \E d \in keys :
          LET r == player_move_or_attack(d[1], d[2], game, objects)
          IN  AfterKeys("TookTurn", r.game, r.objects)

\* Any other key, and any key but Escape once the player is dead
KeyOther(limit) ==
    /\ Reading(limit)
    /\ AfterKeys("DidntTakeTurn", game, objects)

\* AiTurn as it would be if the sweep went over every other index
AiTurn_every_other ==
    /\ pc = "sweep"
    /\ \E dx \in -1..1, dy \in -1..1 :
          LET r == IF is_some(objects[id].ai)
                   THEN ai_take_turn(id, dx, dy, fov, game, objects)
                   ELSE [game |-> game, objects |-> objects]
          IN  game' = r.game /\ objects' = r.objects
    /\ IF id + 1 < Len(objects) THEN id' = id + 2 /\ pc' = pc
                                 ELSE id' = id /\ pc' = "loop"
    /\ ticks' = IF is_some(objects[id].ai) /\ objects[id].ai[1].kind = "Confused"
                THEN ticks + 1 ELSE ticks
    /\ UNCHANGED <<fov, action, previous_player_position, level_up_xp_, savegame,
                   rooms, cursor, rounds, skipped>>

\* One iteration of the sweep `for id in 1..objects.len()`
AiTurn ==
    /\ pc = "sweep"
    /\ \E dx \in -1..1, dy \in -1..1 :
          LET r == IF is_some(objects[id].ai)
                   THEN ai_take_turn(id, dx, dy, fov, game, objects)
                   ELSE [game |-> game, objects |-> objects]
          IN  game' = r.game /\ objects' = r.objects
    /\ IF id < Len(objects) THEN id' = id + 1 /\ pc' = pc
                             ELSE id' = id /\ pc' = "loop"
    /\ ticks' = IF is_some(objects[id].ai) /\ objects[id].ai[1].kind = "Confused"
                THEN ticks + 1 ELSE ticks
    /\ UNCHANGED <<fov, action, previous_player_position, level_up_xp_, savegame,
                   rooms, cursor, rounds, skipped>>

\* Sessions of any keys, new or continued
Next ==
    \/ BeginCycle
    \/ LevelUpMenu
    \/ KeyEscape
    \/ KeyPickUp(MaxLog)
    \/ KeyDrop(MaxLog)
    \/ KeyUse(MaxLog)
    \/ KeyDescend(MaxLog)
    \/ KeyWait(MaxLog)
    \/ KeyMove(MaxLog, Directions)
    \/ KeyOther(MaxLog)
    \/ AiTurn

Spec == Init /\ [][Next]_vars

---------------------------------------------------------------------------
(* The duel: a new game whose first level holds one orc, played with the   *)
(* Left and Right keys and the wait key.                                  *)

monsters_of(objs) == {i \in DOMAIN objs : i # PLAYER /\ is_some(objs[i].ai)}

InitDuel ==
    /\ \E session \in new_game :
          /\ Cardinality(monsters_of(session.objects)) = 1
          /\ Enter(session)
    /\ savegame = None

NextDuel ==
    \/ BeginCycle
    \/ KeyEscape
    \/ KeyWait(DuelLog)
    \/ KeyMove(DuelLog, LeftRight)
    \/ AiTurn

SpecDuel == InitDuel /\ [][NextDuel]_vars

\* The number of messages of the log with the given text
count(text) == Cardinality({k \in DOMAIN game.messages : game.messages[k].text = text})

\* The hits of the player on the orc that the log records
player_hits == count(<<"{} attacks {} for {} hit points.", "player", "orc", 4>>)

\* C1: in a new level-1 session with one orc, each melee attack of the player
\* (power 2 plus the dagger's 2) takes exactly 4 of the orc's 20 hp: after n < 5
\* attacks the orc is alive and blocking with 20 - 4n hp (8 after the third)
\* and the player has no xp; the fifth attack leaves, in the same step, a dead
\* non-blocking "remains of orc" without Fighter or Ai and the player's xp at 35.
C1_FiveBlows ==
    /\ player_hits <= 5
    /\ \A i \in DOMAIN objects :
          objects[i].name = "orc" =>
              /\ player_hits < 5
              /\ objects[i].alive /\ objects[i].blocks
              /\ is_some(objects[i].fighter)
              /\ objects[i].fighter[1].hp = 20 - 4 * player_hits
              /\ objects[PLAYER].fighter[1].xp = 0
    /\ player_hits < 5 => \E i \in DOMAIN objects : objects[i].name = "orc"
    /\ player_hits = 5 =>
          /\ \E i \in DOMAIN objects :
                /\ objects[i].name = "remains of orc"
                /\ ~objects[i].alive /\ ~objects[i].blocks
                /\ is_none(objects[i].fighter) /\ is_none(objects[i].ai)
          /\ objects[PLAYER].fighter[1].xp = 35

\* The fifth attack has landed.
C1_Witness ==
    /\ player_hits = 5
    /\ objects[PLAYER].fighter[1].xp = 35
    /\ \E i \in DOMAIN objects : objects[i].name = "remains of orc"

---------------------------------------------------------------------------
(* Damage *)

\* The damages take_damage is tried with: none, the blows of up to 8 and the
\* spells, each with the damage next to it
Damages == (0..9) \cup {FIREBALL_DAMAGE - 1, FIREBALL_DAMAGE, FIREBALL_DAMAGE + 1,
                        LIGHTNING_DAMAGE - 1, LIGHTNING_DAMAGE, LIGHTNING_DAMAGE + 1}

fighters_of(objs) == {i \in DOMAIN objs : is_some(objs[i].fighter)}

\* C2: no Fighter of a reachable state has hp below 0, and take_damage of any
\* damage >= 0 on any entity that holds a Fighter leaves hp at
\* max(0, hp before - damage): on the entity, or, when the blow kills a monster
\* (whose death callback drops the Fighter), on the way to a death that happens
\* exactly when that maximum is 0.
C2_ClampedAtZero ==
    \A i \in fighters_of(objects) :
        /\ objects[i].fighter[1].hp >= 0
        /\ \A damage \in Damages :
              LET before == objects[i].fighter[1].hp
                  r == take_damage(objects[i], damage, game)
              IN  IF is_some(r.self.fighter)
                  THEN r.self.fighter[1].hp = Max(0, before - damage)
                  ELSE /\ Max(0, before - damage) = 0
                       /\ objects[i].fighter[1].on_death = "Monster"
                       /\ is_some(r.ret)

\* A blow of 3 has taken the last 2 hp of the player of the saved session.
C2_Witness ==
    /\ load_game(savegame, TRUE).ok
    /\ load_game(savegame, TRUE).value.objects[PLAYER].fighter[1].hp = 2
    /\ objects[PLAYER].fighter[1].hp = 0
    /\ count(<<"{} attacks {} for {} hit points.", "orc", "player", 3>>) >= 1

\* C3: take_damage of any positive damage on an entity that is not alive
\* returns no reward, appends nothing to the log and leaves the entity as it
\* was.
C3_DeadIsUntouched ==
    \A i \in DOMAIN objects :
        ~objects[i].alive =>
            \A damage \in Damages \ {0} :
                LET r == take_damage(objects[i], damage, game)
                IN  /\ is_none(r.ret)
                    /\ r.game.messages = game.messages
                    /\ r.self = objects[i]

\* The attacks the program makes: the player on an entity with a Fighter, a
\* monster on the player
attacks_of(objs) ==
    {<<PLAYER, j>> : j \in fighters_of(objs) \ {PLAYER}}
        \cup {<<j, PLAYER>> : j \in fighters_of(objs) \cap monsters_of(objs)}

\* C5: an attack computes damage = power of the attacker - defense of the
\* target. For damage > 0 the log gains first the hit message with that damage
\* and the target's hp goes to max(0, hp - damage) (a monster that this kills
\* loses its Fighter to its death callback); for damage <= 0 the log gains the
\* no-effect message and nothing else, and attacker and target are unchanged.
C5_AttackDamage ==
    \A pair \in attacks_of(objects) :
        LET self == objects[pair[1]]
            other == objects[pair[2]]
            damage == power(self, game) - defense(other, game)
            r == attack(self, other, game)
            logged == Len(game.messages) + 1
        IN  /\ Len(r.game.messages) >= logged
            /\ SubSeq(r.game.messages, 1, Len(game.messages)) = game.messages
            /\ IF damage > 0
               THEN /\ r.game.messages[logged].text =
                          <<"{} attacks {} for {} hit points.", self.name, other.name, damage>>
                    /\ IF is_some(r.other.fighter)
                       THEN r.other.fighter[1].hp = Max(0, other.fighter[1].hp - damage)
                       ELSE other.fighter[1].hp - damage <= 0
                    /\ (other.fighter[1].hp - damage > 0 =>
                            /\ Len(r.game.messages) = logged
                            /\ r.other = [other EXCEPT !.fighter[1].hp = @ - damage])
               ELSE /\ r.game.messages =
                          add(game.messages, <<"{} attacks {} but it has no effect!",
                                               self.name, other.name>>, "WHITE")
                    /\ r.other = other
                    /\ r.self = self

\* The player, the dagger put away, has attacked the troll to no effect.
C5_Witness ==
    /\ count(<<"{} attacks {} but it has no effect!", "player", "troll">>) = 1
    /\ \E i \in DOMAIN objects :
          /\ objects[i].name = "troll" /\ objects[i].alive
          /\ objects[i].fighter[1].hp = 2
    /\ power(objects[PLAYER], game) = 2

---------------------------------------------------------------------------
(* Leveling *)

player_xp == objects[PLAYER].fighter[1].xp

\* The collection with the player's xp set to xp
with_xp(xp) == [objects EXCEPT ![PLAYER].fighter[1].xp = xp]

\* C7: the threshold of the player's level is 200 + 150 * level. The level
\* check on a player whose xp equals the threshold levels it up; on a player
\* whose xp is one short of it, it changes neither the collection nor the
\* game. In every cycle the check fires exactly when xp has reached the
\* threshold, and otherwise leaves the collection and the log as they were.
C7_Threshold ==
    /\ [](LET threshold == 200 + 150 * objects[PLAYER].level
              at == level_up_check(game, with_xp(threshold))
              short == level_up_check(game, with_xp(threshold - 1))
          IN  /\ level_up_xp(objects[PLAYER]) = threshold
              /\ at.leveled
              /\ at.objects[PLAYER].level = objects[PLAYER].level + 1
              /\ ~short.leveled
              /\ short.objects = with_xp(threshold - 1)
              /\ short.game = game)
    /\ [][pc = "loop" =>
             IF player_xp >= 200 + 150 * objects[PLAYER].level
             THEN pc' = "menu" /\ objects'[PLAYER].level = objects[PLAYER].level + 1
             ELSE /\ pc' = "keys"
                  /\ objects' = objects
                  /\ game'.messages = game.messages]_vars

\* The check has fired on a player whose xp equals the threshold of level 1.
C7_Witness ==
    /\ pc = "menu"
    /\ objects[PLAYER].level = 2
    /\ player_xp = 350
    /\ level_up_xp_ = 350

\* The Fighters a level-up can leave, for the level held before it
upgrades(fighter, level) ==
    LET paid == [fighter EXCEPT !.xp = @ - (200 + 150 * level)]
    IN  {[paid EXCEPT !.base_max_hp = @ + 20, !.hp = @ + 20],
         [paid EXCEPT !.base_power = @ + 1],
         [paid EXCEPT !.base_defense = @ + 1]}

\* C8: when the level check fires, the level grows by 1, the log gains the
\* one level-up message and nothing else of the player or the game changes;
\* the menu that follows changes nothing until a choice is made, and the
\* choice takes the threshold of the level held before off xp and applies
\* one of: base max hp + 20 with hp + 20, base power + 1, base defense + 1,
\* all other fields of the player and the whole game unchanged.
C8_LevelUp ==
    /\ [][pc = "loop" /\ pc' = "menu" =>
             /\ objects' = [objects EXCEPT ![PLAYER].level = @ + 1]
             /\ game' = [game EXCEPT
                    !.map = game'.map,
                    !.messages = add(@, <<"Your battle skills grow stronger! You reached level {}!",
                                          objects[PLAYER].level + 1>>, "YELLOW")]]_vars
    /\ [][pc = "menu" =>
             /\ game' = game
             /\ \/ pc' = "menu" /\ objects' = objects
                \/ /\ pc' = "keys"
                   /\ \E raised \in upgrades(objects[PLAYER].fighter[1],
                                             objects[PLAYER].level - 1) :
                         objects' = [objects EXCEPT ![PLAYER].fighter[1] = raised]]_vars

\* The player of level 2 that chose Constitution at xp 350
C8_Witness ==
    /\ pc = "keys"
    /\ objects[PLAYER].level = 2
    /\ player_xp = 0
    /\ objects[PLAYER].fighter[1].base_max_hp = 120
    /\ objects[PLAYER].fighter[1].hp = 120

---------------------------------------------------------------------------
(* The scheduler *)

\* The messages a step appends to the log
appended == SubSeq(game'.messages, Len(game.messages) + 1, Len(game'.messages))

\* The messages of a monster's own behaviour: its attack, its recovery
of_a_monster(message) ==
    \/ message.text[1] = "The {} is no longer confused!"
    \/ /\ message.text[1] \in {"{} attacks {} for {} hit points.",
                               "{} attacks {} but it has no effect!"}
       /\ message.text[2] # "player"

\* C10: an AI sweep runs only in a cycle whose action is TookTurn, and outside
\* the sweep no monster acts: on the same level every entity that has an Ai
\* after the step had it before, at the same position, in the same state or
\* in that state wrapped by the confusion the player has just cast, and the
\* log gains no message of a monster's attack or recovery.
C10_NoTickOutsideSweep ==
    /\ [](pc = "sweep" => action = "TookTurn")
    /\ [][pc # "sweep" =>
             /\ \A k \in DOMAIN appended : ~of_a_monster(appended[k])
             /\ game'.dungeon_level = game.dungeon_level =>
                   \A j \in DOMAIN objects' :
                       is_some(objects'[j].ai) =>
                           \E i \in DOMAIN objects :
                               /\ is_some(objects[i].ai)
                               /\ pos(objects[i]) = pos(objects'[j])
                               /\ objects[i].name = objects'[j].name
                               /\ objects'[j].ai[1] \in
                                      {objects[i].ai[1],
                                       Confused(objects[i].ai[1], CONFUSE_NUM_TURNS)}]_vars

\* A cycle of DidntTakeTurn has ended with the confusion just cast untouched.
C10_Witness ==
    /\ pc = "loop" /\ action = "DidntTakeTurn"
    /\ \E i \in DOMAIN objects :
          /\ is_some(objects[i].ai)
          /\ objects[i].ai[1] = Confused(Basic, CONFUSE_NUM_TURNS)

---------------------------------------------------------------------------
(* Deaths and rewards *)

\* A step that keeps every entity at its index: any but a pickup, a drop or
\* a descent
same_world ==
    /\ Len(objects') = Len(objects)
    /\ game'.dungeon_level = game.dungeon_level

\* The entities that a step takes from alive to dead
killed == {i \in DOMAIN objects : objects[i].alive /\ ~objects'[i].alive}

\* The death messages among the messages a step appends
deaths_logged ==
    {k \in DOMAIN appended :
        appended[k].text[1] \in {"You died!", "{} is dead! You gain {} experience points."}}

\* The sum of the rewards of the monsters a step kills
reward_of_killed ==
    SumSeq([i \in DOMAIN objects |->
               IF i \in killed /\ i # PLAYER THEN objects[i].fighter[1].xp ELSE 0])

\* C4: a death happens once: no entity that is dead is alive again after a
\* step, and a step logs as many death messages as it takes entities from alive
\* to dead. The reward goes once to the one that dealt the blow: a key of the
\* player (a melee attack, a lightning bolt, a fireball) adds to the player's
\* xp exactly the sum of the xp of the monsters it kills; a monster's tick
\* that kills the player adds the player's xp to that monster's and nothing to
\* the player's; apart from the payment of a level-up, no other step changes
\* the player's xp.
C4_RewardOnce ==
    [][/\ same_world =>
            /\ \A i \in DOMAIN objects : ~objects[i].alive => ~objects'[i].alive
            /\ Cardinality(deaths_logged) = Cardinality(killed)
       /\ ~same_world => deaths_logged = {}
       /\ pc = "keys" =>
            player_xp' = player_xp + (IF same_world THEN reward_of_killed ELSE 0)
       /\ pc = "sweep" =>
            /\ player_xp' = player_xp
            /\ PLAYER \in killed =>
                   objects'[id].fighter[1].xp = objects[id].fighter[1].xp + player_xp
       /\ pc = "loop" => player_xp' = player_xp
       /\ pc = "menu" => player_xp' \in {player_xp, player_xp - level_up_xp_}]_vars

\* One fireball has killed the two orcs and their 35 + 35 xp are the player's.
C4_Witness ==
    /\ count(<<"The fireball explodes, burning everything within {} tiles!",
               FIREBALL_RADIUS>>) = 1
    /\ count(<<"{} is dead! You gain {} experience points.", "orc", 35>>) = 2
    /\ player_xp = 315 + 70
    /\ Cardinality({i \in DOMAIN objects : objects[i].name = "remains of orc"}) = 2

---------------------------------------------------------------------------
(* Confusion: the saved session of the scroll of confusion and one orc,    *)
(* played with the inventory key and the wait key.                         *)

InitConfusion == Continue({trickster})

NextConfusion ==
    \/ BeginCycle
    \/ KeyEscape
    \/ KeyUse(ConfusionLog)
    \/ KeyWait(ConfusionLog)
    \/ AiTurn

SpecConfusion == InitConfusion /\ [][NextConfusion]_vars

confused_of(objs) ==
    {i \in DOMAIN objs : is_some(objs[i].ai) /\ objs[i].ai[1].kind = "Confused"}

recovery == [text |-> <<"The {} is no longer confused!", "orc">>, color |-> "RED"]

\* C9: the orc confused with lasts_for = CONFUSE_NUM_TURNS = 10 is, after t
\* ticks, Confused with the counter at 10 - t, for t up to 11 (the counter
\* going 10, 9, ..., 0, -1); each of its first 11 ticks (0..10) takes 1 off the
\* counter and logs nothing, the tick after them (tick 11, the 12th) restores
\* Basic and logs the one recovery message, and no step outside the sweep
\* changes the counter.
C9_ConfusedTicks ==
    /\ [](\A i \in confused_of(objects) :
             /\ ticks \in 0..(CONFUSE_NUM_TURNS + 1)
             /\ objects[i].ai[1] = Confused(Basic, CONFUSE_NUM_TURNS - ticks))
    /\ [][\A i \in confused_of(objects) :
             IF pc = "sweep" /\ id = i
             THEN IF ticks <= CONFUSE_NUM_TURNS
                  THEN /\ objects'[i].ai =
                              Some(Confused(Basic, CONFUSE_NUM_TURNS - ticks - 1))
                       /\ appended = <<>>
                       /\ ticks' = ticks + 1
                  ELSE /\ objects'[i].ai = Some(Basic)
                       /\ appended = <<recovery>>
                       /\ ticks' = CONFUSE_NUM_TURNS + 2
             ELSE objects'[i].ai = objects[i].ai /\ ticks' = ticks]_vars

\* The orc is Basic again after its 12th tick and the log holds its recovery.
C9_Witness ==
    /\ ticks = CONFUSE_NUM_TURNS + 2
    /\ count(recovery.text) = 1
    /\ confused_of(objects) = {}
    /\ \E i \in DOMAIN objects : objects[i].name = "orc" /\ objects[i].ai = Some(Basic)

---------------------------------------------------------------------------
(* Equipment bonuses: Object::equip, Object::dequip and Equipment::toggle   *)
(* applied to the two items that a player holds, the dagger (power + 2)    *)
(* and a sword (power + 3), each made for any slot.                        *)

Slots == {"LeftHand", "RightHand", "Head"}

InitEquip ==
    /\ \E dagger_slot \in Slots, sword_slot \in Slots, base_power \in {2, 3} :
          /\ game = [map |-> carved(CHOOSE l \in Layouts : l.rooms # <<>>),
                     messages |-> <<>>,
                     inventory |->
                         <<[new_dagger EXCEPT !.equipment[1].slot = dagger_slot,
                                              !.equipment[1].equipped = FALSE],
                           [Item_create("Sword", 0, 0) EXCEPT
                               !.equipment[1].slot = sword_slot]>>,
                     dungeon_level |-> 1]
          /\ objects = <<[new_player EXCEPT !.fighter[1].base_power = base_power]>>
    /\ fov = {}
    /\ pc = "inventory"
    /\ action = "None"
    /\ id = 0
    /\ previous_player_position = <<-1, -1>>
    /\ level_up_xp_ = 0
    /\ savegame = None
    /\ ticks = 0
    /\ rooms = <<>>
    /\ cursor = 0
    /\ rounds = 0
    /\ skipped = 0

Equip ==
    /\ Len(game.messages) < EquipLog
    /\ \E i \in DOMAIN game.inventory : game' = equip_at(game, i)
    /\ UNCHANGED <<objects, fov, pc, action, id, previous_player_position,
                   level_up_xp_, savegame, ticks, rooms, cursor, rounds, skipped>>

Dequip ==
    /\ Len(game.messages) < EquipLog
    /\ \E i \in DOMAIN game.inventory : game' = dequip_at(game, i)
    /\ UNCHANGED <<objects, fov, pc, action, id, previous_player_position,
                   level_up_xp_, savegame, ticks, rooms, cursor, rounds, skipped>>

Toggle ==
    /\ Len(game.messages) < EquipLog
    /\ \E i \in DOMAIN game.inventory : game' = toggle(i, game).game
    /\ UNCHANGED <<objects, fov, pc, action, id, previous_player_position,
                   level_up_xp_, savegame, ticks, rooms, cursor, rounds, skipped>>

NextEquip == Equip \/ Dequip \/ Toggle

SpecEquip == InitEquip /\ [][NextEquip]_vars

equipped(g, i) == g.inventory[i].equipment[1].equipped

\* The power bonus that inventory[i] gives while it is equipped
bonus(g, i) == IF equipped(g, i) THEN g.inventory[i].equipment[1].power_bonus ELSE 0

\* C6: the player's power is its base power plus 2 while the dagger is
\* equipped plus 3 while the sword is, so base power + 5 with both; and a step
\* that dequips one of the two while both are equipped leaves the other
\* equipped and takes off the power exactly the bonus of the one dequipped.
C6_Bonuses ==
    /\ [](/\ power(objects[PLAYER], game) =
                objects[PLAYER].fighter[1].base_power + bonus(game, 1) + bonus(game, 2)
          /\ (equipped(game, 1) /\ equipped(game, 2) =>
                power(objects[PLAYER], game) = objects[PLAYER].fighter[1].base_power + 5))
    /\ [][equipped(game, 1) /\ equipped(game, 2) =>
             /\ ~equipped(game', 1) =>
                   /\ equipped(game', 2)
                   /\ power(objects[PLAYER], game') = power(objects[PLAYER], game) - 2
             /\ ~equipped(game', 2) =>
                   /\ equipped(game', 1)
                   /\ power(objects[PLAYER], game') = power(objects[PLAYER], game) - 3]_vars

\* Both were equipped, then the dagger was dequipped: the sword's 3 remain.
C6_Witness ==
    /\ Len(game.messages) = 3
    /\ game.messages[1].text[1] = "Equipped {} on {}."
    /\ game.messages[2].text[1] = "Equipped {} on {}."
    /\ game.messages[3].text = <<"Dequipped {} on {}.", "dagger",
                                 game.inventory[1].equipment[1].slot>>
    /\ ~equipped(game, 1) /\ equipped(game, 2)
    /\ power(objects[PLAYER], game) = objects[PLAYER].fighter[1].base_power + 3

---------------------------------------------------------------------------
(* The order of the sweep *)

\* What the tick of the entity at index i can give, over the two draws of
\* ai_confused
tick_outcomes(i) ==
    {ai_take_turn(i, dx, dy, fov, game, objects) : dx \in -1..1, dy \in -1..1}

\* C11: in a cycle whose action is TookTurn and leaves the player alive, the
\* action is applied whole before the sweep (the step of the key logs no
\* monster's message and hands over at the first index after the player);
\* the sweep then visits the indexes after the player one by one in
\* increasing order up to the last, and the step at an index is one whole
\* tick of the entity there if it has an Ai and nothing otherwise, leaving
\* every entity but that one and the player as it was.
C11_SweepInOrder ==
    /\ [](pc = "sweep" => action = "TookTurn" /\ id \in 2..Len(objects))
    /\ [][/\ (pc = "keys" /\ action' = "TookTurn" /\ objects'[PLAYER].alive) =>
                /\ pc' = "sweep" /\ id' = PLAYER + 1
                /\ \A k \in DOMAIN appended : ~of_a_monster(appended[k])
          /\ (pc # "sweep" /\ pc' = "sweep") => id' = PLAYER + 1
          /\ pc = "sweep" =>
                /\ IF is_some(objects[id].ai)
                   THEN [game |-> game', objects |-> objects'] \in tick_outcomes(id)
                   ELSE game' = game /\ objects' = objects
                /\ Len(objects') = Len(objects)
                /\ \A j \in DOMAIN objects \ {id, PLAYER} : objects'[j] = objects[j]
                /\ IF id < Len(objects)
                   THEN pc' = "sweep" /\ id' = id + 1
                   ELSE pc' = "loop"]_vars

\* The player has waited between an orc and a troll: the sweep is over and
\* the log holds the orc's blow and then the troll's, one each.
C11_Witness ==
    /\ pc = "loop" /\ action = "TookTurn" /\ objects[PLAYER].alive
    /\ Len(game.messages) = 3
    /\ game.messages[2].text = <<"{} attacks {} for {} hit points.", "orc", "player", 3>>
    /\ game.messages[3].text = <<"{} attacks {} for {} hit points.", "troll", "player", 7>>

---------------------------------------------------------------------------
(* The generator step by step: make_map of game/map.rs, as new_game calls  *)
(* it for the first level and as next_level calls it for the second.       *)

\* The draws (x, y, w, h) of a placement attempt that these runs explore:
\* a room in the corner of the map, a room that shares no tile with it, and
\* a room whose border column is the corner room's and which overlaps the
\* other.
MapDraws ==
    {[x |-> 0, y |-> 0, w |-> ROOM_MIN_SIZE, h |-> ROOM_MIN_SIZE],
     [x |-> ROOM_MAX_SIZE, y |-> 4, w |-> 8, h |-> ROOM_MIN_SIZE],
     [x |-> ROOM_MIN_SIZE, y |-> 0, w |-> ROOM_MIN_SIZE, h |-> ROOM_MIN_SIZE]}

\* The collections make_map is handed: new_game's, and a first level's on
\* the descent to the second.
MapCalls ==
    {[objects |-> <<new_player>>, level |-> 1],
     [objects |-> (CHOOSE session \in new_game :
                      Cardinality(monsters_of(session.objects)) = 1).objects,
      level |-> 2]}

InitMap ==
    /\ \E call \in MapCalls :
          /\ objects = call.objects
          /\ game = [map |-> [empty |-> {}, explored |-> {}], messages |-> <<>>,
                     inventory |-> <<>>, dungeon_level |-> call.level]
    /\ pc = "place"
    /\ rooms = <<>>
    /\ cursor = 0
    /\ rounds = 0
    /\ skipped = 0
    /\ fov = {}
    /\ action = "None"
    /\ id = 0
    /\ previous_player_position = <<-1, -1>>
    /\ level_up_xp_ = 0
    /\ savegame = None
    /\ ticks = 0

\* One iteration of `for _ in 0..MAX_ROOMS`
PlaceRoom ==
    /\ pc = "place" /\ cursor < MAX_ROOMS
    /\ \E draw \in MapDraws, coin \in BOOLEAN :
          LET layout == place_room([rooms |-> rooms, tunnels |-> game.map.empty], draw, coin)
              new == center(layout.rooms[1])
          IN  /\ rooms' = layout.rooms
              /\ game' = [game EXCEPT !.map.empty = layout.tunnels]
              /\ objects' = IF rooms = <<>> /\ layout.rooms # <<>>
                            THEN [objects EXCEPT ![PLAYER] = set_pos(@, new[1], new[2])]
                            ELSE objects
    /\ cursor' = cursor + 1
    /\ UNCHANGED <<fov, pc, action, id, previous_player_position, level_up_xp_,
                   savegame, ticks, rounds, skipped>>

\* Truncate as it would be if the collection were left as it is
Truncate_keeps_all ==
    /\ pc = "place" /\ cursor = MAX_ROOMS
    /\ pc' = "fill"
    /\ cursor' = 0
    /\ UNCHANGED <<game, objects, fov, action, id, previous_player_position,
                   level_up_xp_, savegame, ticks, rooms, rounds, skipped>>

\* objects.truncate(1), between the two loops
Truncate ==
    /\ pc = "place" /\ cursor = MAX_ROOMS
    /\ objects' = SubSeq(objects, 1, 1)
    /\ pc' = "fill"
    /\ cursor' = 0
    /\ UNCHANGED <<game, fov, action, id, previous_player_position, level_up_xp_,
                   savegame, ticks, rooms, rounds, skipped>>

\* One iteration of `for room in &rooms`
FillRoom ==
    /\ pc = "fill" /\ cursor < Len(rooms)
    /\ LET room == rooms[cursor + 1]
           map == [game.map EXCEPT !.empty = @ \cup carve_room(room)]
       IN  /\ game' = [game EXCEPT !.map = map]
           /\ objects' \in fill_with_objects(room, map, objects, game.dungeon_level)
    /\ cursor' = cursor + 1
    /\ UNCHANGED <<fov, pc, action, id, previous_player_position, level_up_xp_,
                   savegame, ticks, rooms, rounds, skipped>>

\* The stairs, after the two loops
PlaceStairs ==
    /\ pc = "fill" /\ cursor = Len(rooms)
    /\ objects' = Append(objects, stairs_of([rooms |-> rooms, tunnels |-> {}]))
    /\ pc' = "made"
    /\ UNCHANGED <<game, fov, action, id, previous_player_position, level_up_xp_,
                   savegame, ticks, rooms, cursor, rounds, skipped>>

NextMap == PlaceRoom \/ Truncate \/ FillRoom \/ PlaceStairs

SpecMap == InitMap /\ [][NextMap]_vars

\* The tiles of a room, its border included
tiles_of(room) == {<<x, y>> : x \in room.x1..room.x2, y \in room.y1..room.y2}

\* C12: the rooms make_map has accepted are pairwise apart under the
\* inclusive test (one lies wholly left of, right of, above or below the
\* other), so that no two of them share a tile, border tiles included.
C12_RoomsApart ==
    \A i \in DOMAIN rooms, j \in DOMAIN rooms :
        i # j =>
            /\ \/ rooms[i].x1 > rooms[j].x2 \/ rooms[i].x2 < rooms[j].x1
               \/ rooms[i].y1 > rooms[j].y2 \/ rooms[i].y2 < rooms[j].y1
            /\ tiles_of(rooms[i]) \cap tiles_of(rooms[j]) = {}

\* Two rooms are accepted and every attempt has been made, the draw that
\* shares the first room's border column among them.
C12_Witness ==
    /\ pc = "made" /\ Len(rooms) = 2
    /\ \E draw \in MapDraws :
          LET room == Rectangle_new(draw.x, draw.y, draw.w, draw.h)
          IN  /\ \A k \in DOMAIN rooms : rooms[k] # room
              /\ room.x1 = rooms[1].x2

\* C13: when make_map returns, the collection holds one stairs entity, its
\* last, at ((x1 + x2) / 2, (y1 + y2) / 2) of the last accepted room, on a
\* tile that is not blocked, which does not block and is always visible.
C13_StairsInLastRoom ==
    pc = "made" =>
        LET last_room == rooms[Len(rooms)]
            stairs == objects[Len(objects)]
        IN  /\ rooms # <<>>
            /\ {i \in DOMAIN objects : objects[i].name = "stairs"} = {Len(objects)}
            /\ stairs.x = (last_room.x1 + last_room.x2) \div 2
            /\ stairs.y = (last_room.y1 + last_room.y2) \div 2
            /\ pos(stairs) \in game.map.empty
            /\ ~stairs.blocks
            /\ stairs.always_visible

\* make_map has returned a level of two rooms, the stairs away from the
\* player's room.
C13_Witness ==
    /\ pc = "made" /\ Len(rooms) = 2
    /\ objects[Len(objects)].name = "stairs"
    /\ pos(objects[Len(objects)]) = center(rooms[2])
    /\ pos(objects[PLAYER]) = center(rooms[1])
    /\ pos(objects[PLAYER]) # pos(objects[Len(objects)])

---------------------------------------------------------------------------
(* Saving and restoring *)

\* The session load_game gives back from what save_game writes of g and objs
restored(g, objs) == load_game(save_game(g, objs, savegame, "written").file, TRUE)

\* The collection with the Ai of every entity that has one wrapped in a
\* confusion just cast
all_confused(objs) ==
    [i \in DOMAIN objs |->
        IF is_some(objs[i].ai)
        THEN [objs[i] EXCEPT !.ai = Some(Confused(unwrap(@), CONFUSE_NUM_TURNS))]
        ELSE objs[i]]

\* C14: load_game on the document save_game writes of a session gives that
\* session back: the same map (the model's map fixes blocked, explored and
\* block_sight of every tile), the same collection in the same order with
\* every component, the same inventory, log and dungeon_level; and so it
\* does with every Ai of the collection nested in two more Confused. The
\* sessions are those of every state in which handle_keys reads a key, where
\* Exit saves.
C14_RoundTrip ==
    pc = "keys" =>
        /\ restored(game, objects) = Ok([game |-> game, objects |-> objects])
        /\ restored(game, all_confused(all_confused(objects))) =
               Ok([game |-> game, objects |-> all_confused(all_confused(objects))])

\* A session was saved on Exit with a confused orc, the dagger held, a log
\* of two messages and explored tiles, and the file gives it back.
C14_Witness ==
    /\ pc = "exit"
    /\ \E i \in DOMAIN objects :
          is_some(objects[i].ai) /\ unwrap(objects[i].ai).kind = "Confused"
    /\ game.inventory # <<>> /\ Len(game.messages) >= 2 /\ game.map.explored # {}
    /\ load_game(savegame, TRUE) = Ok([game |-> game, objects |-> objects])

\* C20: when the file system fails the save, in File::create or in write_all,
\* save_game returns an error value, which play_game unwraps (the session
\* ends there), and the game and the collection are after the step what
\* they were before it.
C20_FailedSave ==
    /\ [](pc = "keys" =>
             \A disk \in DiskOutcomes \ {"written"} :
                 ~save_game(game, objects, savegame, disk).result.ok)
    /\ [][pc' = "panic" =>
             /\ \E disk \in DiskOutcomes \ {"written"} :
                   /\ ~save_game(game, objects, savegame, disk).result.ok
                   /\ savegame' = save_game(game, objects, savegame, disk).file
             /\ game' = game /\ objects' = objects]_vars

\* write_all has failed on the Exit of a session with monsters and a held
\* item: the session is as it was.
C20_Witness ==
    /\ pc = "panic" /\ savegame = Some(cut_short)
    /\ monsters_of(objects) # {} /\ game.inventory # <<>>
    /\ Len(game.messages) >= 2

---------------------------------------------------------------------------
(* The main menu: main_menu of game.rs, around sessions played with the    *)
(* wait key and Escape.                                                    *)

\* A well-formed JSON text that is not the document of a session: the
\* document of `veteran` with the collection left out, with the member
\* dungeon_level left out of the game, with a string or a negative number
\* for it, and the text null.
malformed ==
    LET text == to_string(veteran.game, veteran.objects)
        game_of == text.arr[1]
        put(level) == json_arr(<<json_obj([game_of.obj EXCEPT !.dungeon_level = level]),
                                 text.arr[2]>>)
    IN  {json_arr(<<game_of>>),
         json_arr(<<json_obj([m \in DOMAIN game_of.obj \ {"dungeon_level"} |->
                                game_of.obj[m]]),
                    text.arr[2]>>),
         put(json_str("3")),
         put(json_num(-1)),
         json_null}

\* What SAVEGAME_FILE can hold when the program starts: nothing, a text cut
\* short, a malformed document, the document of a saved session.
Files ==
    {None, Some(cut_short)}
    \cup {Some(text) : text \in malformed}
    \cup {Some(to_string(session.game, session.objects)) : session \in {last_stand, veteran}}

InitMenu ==
    /\ savegame \in Files
    /\ pc = "main_menu"
    /\ game = <<>>
    /\ objects = <<>>
    /\ fov = {}
    /\ action = "None"
    /\ id = 0
    /\ previous_player_position = <<-1, -1>>
    /\ level_up_xp_ = 0
    /\ ticks = 0
    /\ rooms = <<>>
    /\ cursor = 0
    /\ rounds = 0
    /\ skipped = 0

\* play_game is called with the session
Begin(session) ==
    /\ game' = session.game
    /\ objects' = session.objects
    /\ fov' = {}
    /\ pc' = "loop"
    /\ action' = "None"
    /\ id' = 0
    /\ previous_player_position' = <<-1, -1>>
    /\ level_up_xp_' = 0
    /\ ticks' = 0
    /\ UNCHANGED <<savegame, rooms, cursor, rounds, skipped>>

\* "Play a new game"
MenuNewGame ==
    /\ pc = "main_menu"
    /\ \E session \in new_game : Begin(session)

\* "Continue last game", on a file that may not be readable
MenuContinue ==
    /\ pc = "main_menu"
    /\ \E readable \in BOOLEAN :
          LET loaded == load_game(savegame, readable)
          IN  IF loaded.ok
              THEN Begin(loaded.value)
              ELSE /\ pc' = "msgbox"
                   /\ UNCHANGED <<game, objects, fov, action, id, previous_player_position,
                                  level_up_xp_, savegame, ticks, rooms, cursor, rounds, skipped>>

\* The message box "No saved game to load." is dismissed: `continue`
Dismiss ==
    /\ pc = "msgbox"
    /\ pc' = "main_menu"
    /\ UNCHANGED <<game, objects, fov, action, id, previous_player_position,
                   level_up_xp_, savegame, ticks, rooms, cursor, rounds, skipped>>

\* "Quit"
MenuQuit ==
    /\ pc = "main_menu"
    /\ pc' = "quit"
    /\ UNCHANGED <<game, objects, fov, action, id, previous_player_position,
                   level_up_xp_, savegame, ticks, rooms, cursor, rounds, skipped>>

\* play_game returns after the save of an Exit, and its session is dropped
Leave ==
    /\ pc = "exit"
    /\ pc' = "main_menu"
    /\ game' = <<>>
    /\ objects' = <<>>
    /\ fov' = {}
    /\ action' = "None"
    /\ id' = 0
    /\ previous_player_position' = <<-1, -1>>
    /\ level_up_xp_' = 0
    /\ ticks' = 0
    /\ UNCHANGED <<savegame, rooms, cursor, rounds, skipped>>

NextMenu ==
    \/ MenuNewGame
    \/ MenuContinue
    \/ Dismiss
    \/ MenuQuit
    \/ Leave
    \/ BeginCycle
    \/ KeyEscape
    \/ KeyWait(MenuLog)
    \/ AiTurn

SpecMenu == InitMenu /\ [][NextMenu]_vars

\* Whether the step starts a session
begins == pc \in {"main_menu", "msgbox"} /\ pc' \notin {"main_menu", "msgbox", "quit"}

\* C19: load_game gives an error value for a missing file, for a file that
\* cannot be read and for a text that is cut short or is no document of a
\* session; "Continue last game" on such an error starts no session: it
\* shows the message box and is back in the main menu with no game and no
\* collection, the file as it was; a session that starts from the main menu
\* while the file is bad is a new game.
C19_LoadFailure ==
    /\ [](/\ ~load_game(None, TRUE).ok /\ ~load_game(None, FALSE).ok
          /\ ~load_game(savegame, FALSE).ok
          /\ \A text \in malformed \cup {cut_short} : ~load_game(Some(text), TRUE).ok
          /\ pc \in {"main_menu", "msgbox"} => game = <<>> /\ objects = <<>>)
    /\ [][/\ pc' = "msgbox" =>
                /\ pc = "main_menu"
                /\ \E readable \in BOOLEAN : ~load_game(savegame, readable).ok
                /\ UNCHANGED <<game, objects, savegame>>
          /\ pc = "msgbox" =>
                pc' = "main_menu" /\ UNCHANGED <<game, objects, savegame>>
          /\ (begins /\ ~load_game(savegame, TRUE).ok) =>
                [game |-> game', objects |-> objects'] \in new_game]_vars

\* "Continue last game" has failed on a well-formed text that is no document
\* of a session, and the message box is up.
C19_Witness ==
    /\ pc = "msgbox"
    /\ savegame \in {Some(text) : text \in malformed}
    /\ game = <<>> /\ objects = <<>>

\* C15: the step of an Exit, with the player alive or dead, leaves the game
\* and the collection as they were and starts no sweep; when the file system
\* takes the write, the file then holds the whole session (load_game gives
\* back this game and this collection); and the session has ended: the one
\* step after it is play_game's return to the main menu, which drops the
\* session and leaves the file, so that no key is read and no entity is
\* ticked in it any more.
C15_ExitSavesAndEnds ==
    /\ [](pc \in {"exit", "panic"} => action = "Exit")
    /\ [][/\ action' = "Exit" =>
                /\ pc = "keys" /\ pc' \in {"exit", "panic"}
                /\ game' = game /\ objects' = objects /\ ticks' = ticks
                /\ pc' = "exit" =>
                      load_game(savegame', TRUE) = Ok([game |-> game, objects |-> objects])
          /\ pc = "exit" =>
                /\ pc' = "main_menu" /\ game' = <<>> /\ objects' = <<>>
                /\ savegame' = savegame
          /\ pc # "panic"]_vars

\* A session has ended on Exit with the player dead next to a live monster
\* that was not ticked again, and the file holds the session.
C15_Witness ==
    /\ pc = "exit" /\ action = "Exit"
    /\ ~objects[PLAYER].alive
    /\ monsters_of(objects) # {}
    /\ load_game(savegame, TRUE) = Ok([game |-> game, objects |-> objects])

---------------------------------------------------------------------------
(* Descending *)

\* C16: with the player alive and not where the stairs are, the "<" key gives
\* back the game and the collection it was given (the map, every entity, the
\* inventory, the log, dungeon_level and the player's hp with them); and no
\* step of a session changes dungeon_level or starts a new map unless the
\* player stood on the stairs.
C16_DescendOffStairs ==
    /\ [](pc = "keys" /\ objects[PLAYER].alive /\ ~player_on_stairs(objects) =>
             descend(game, objects) = {[game |-> game, objects |-> objects]})
    /\ [][pc = "keys" /\ ~player_on_stairs(objects) =>
             /\ game'.dungeon_level = game.dungeon_level
             /\ game'.map = game.map]_vars

\* The player, north of the stairs, has pressed a key that took no turn and
\* nothing has changed: the session is the one that was loaded.
C16_Witness ==
    /\ pc = "loop" /\ action = "DidntTakeTurn"
    /\ objects[PLAYER].alive /\ ~player_on_stairs(objects)
    /\ [game |-> [game EXCEPT !.map.explored = {}], objects |-> objects] \in
           {[game |-> [s.game EXCEPT !.map.explored = {}], objects |-> s.objects] :
               s \in saved_sessions}

---------------------------------------------------------------------------
(* The descent: sessions saved on the stairs of the first level, the       *)
(* player wounded and of the second level, between two wounded monsters,   *)
(* with the dagger and a healing potion.                                   *)

\* hp is the player's, out of 120
on_the_stairs(hp) ==
    LET session == saved_session(1, Fighter(120, hp, 2, 3, 10, "Player"),
                                 <<"Orc", 4>>, <<"Troll", 9>>, TRUE, <<"Heal">>)
    IN  [session EXCEPT !.objects[PLAYER].y = @ + 1, !.objects[PLAYER].level = 2]

InitDescent == Continue({on_the_stairs(2), on_the_stairs(70)})

NextDescent ==
    \/ BeginCycle
    \/ KeyEscape
    \/ KeyDescend(DescentLog)
    \/ KeyWait(DescentLog)
    \/ AiTurn

SpecDescent == InitDescent /\ [][NextDescent]_vars

\* C17: with the player alive on the stairs, the "<" key gives the player
\* hp + max_hp / 2 (max_hp with the bonuses of what is equipped, the
\* division rounding down) or max_hp if that is less; the log the two
\* messages of the transition more; dungeon_level one more; for the map a
\* newly carved one with no tile explored; for the collection the player on
\* the center of the first room, then monsters and items as they are
\* created, then the stairs of the new map, the same as if the player had
\* been the only entity of the level left; and the inventory and the player's level, xp and base stats as
\* they were. No step changes dungeon_level otherwise.
C17_Descend ==
    /\ [](pc = "keys" /\ objects[PLAYER].alive /\ player_on_stairs(objects) =>
             /\ descend(game, objects) = next_level(game, <<objects[PLAYER]>>)
             /\ \A r \in descend(game, objects) :
                 LET before == objects[PLAYER].fighter[1]
                     after == r.objects[PLAYER].fighter[1]
                     most == before.base_max_hp
                                + SumSeq([k \in DOMAIN get_all_equipped(objects[PLAYER], game) |->
                                            get_all_equipped(objects[PLAYER], game)[k].max_hp_bonus])
                 IN  /\ after.hp = Min(before.hp + most \div 2, most)
                     /\ after.hp <= max_hp(r.objects[PLAYER], r.game)
                     /\ r.game.messages = game.messages \o
                           <<[text |-> <<"You take a moment to rest, and recover your strength.">>,
                              color |-> "VIOLET"],
                             [text |-> <<"After a rare moment of peace, you descend deeper into the heart of the dungeon...">>,
                              color |-> "RED"]>>
                     /\ r.game.dungeon_level = game.dungeon_level + 1
                     /\ r.game.map.explored = {}
                     /\ \E layout \in Layouts :
                           /\ layout.rooms # <<>>
                           /\ r.game.map = carved(layout)
                           /\ pos(r.objects[PLAYER]) = center(layout.rooms[1])
                           /\ r.objects[Len(r.objects)] = stairs_of(layout)
                     /\ \A i \in 2..(Len(r.objects) - 1) :
                           IF is_some(r.objects[i].ai)
                              THEN r.objects[i] = Monster_create(
                                       IF r.objects[i].name = "orc" THEN "Orc" ELSE "Troll",
                                       r.objects[i].x, r.objects[i].y)
                              ELSE is_some(r.objects[i].item) /\ is_none(r.objects[i].fighter)
                     /\ r.game.inventory = game.inventory
                     /\ r.objects[PLAYER].level = objects[PLAYER].level
                     /\ [after EXCEPT !.hp = before.hp] = before)
    /\ [][game'.dungeon_level # game.dungeon_level =>
             /\ pc = "keys" /\ objects[PLAYER].alive /\ player_on_stairs(objects)
             /\ action' = "DidntTakeTurn"
             /\ [game |-> game', objects |-> objects'] \in descend(game, objects)]_vars

\* The player has gone down with 2 hp of 120 and has 62 on the second
\* level, of the same level and xp, the dagger and the potion held, among
\* monsters that are not the wounded ones it left.
C17_Witness ==
    /\ pc = "loop" /\ game.dungeon_level = 2
    /\ objects[PLAYER].fighter[1] = Fighter(120, 62, 2, 3, 10, "Player")
    /\ objects[PLAYER].level = 2
    /\ Len(game.inventory) = 2 /\ Len(game.messages) = 3
    /\ game.map.explored = {}
    /\ Cardinality(monsters_of(objects)) = 2
    /\ \A i \in monsters_of(objects) :
          objects[i].fighter[1].hp = objects[i].fighter[1].base_max_hp

---------------------------------------------------------------------------
(* The full pack: sessions saved with no monster on the level, the dagger  *)
(* and potions and scrolls held, and a potion and a scroll on the floor    *)
(* under the player.                                                       *)

\* n is the number of items held
pack_of(n) ==
    LET session == saved_session(1, Fighter(100, 100, 1, 2, 0, "Player"), <<>>, <<>>, TRUE,
                                 [k \in 1..(n - 1) |-> IF k % 2 = 0 THEN "Heal" ELSE "Confusion"])
        player == session.objects[PLAYER]
    IN  [session EXCEPT !.objects =
            @ \o <<Item_create("Heal", player.x, player.y),
                   Item_create("Lightning", player.x, player.y)>>]

InitPickup == Continue({pack_of(INVENTORY_CAPACITY - 1), pack_of(INVENTORY_CAPACITY)})

NextPickup ==
    \/ BeginCycle
    \/ KeyEscape
    \/ KeyPickUp(PickupLog)
    \/ KeyDrop(PickupLog)

SpecPickup == InitPickup /\ [][NextPickup]_vars

\* The items on the floor under the player
items_here(objs) ==
    {i \in DOMAIN objs : pos(objs[i]) = pos(objs[PLAYER]) /\ is_some(objs[i].item)}

full_message(name) ==
    [text |-> <<"Your inventory is full, can't pick up {}", name>>, color |-> "RED"]

\* C18: with 26 items held, picking up any item on the floor leaves the
\* collection and the inventory as they are and the log with one message
\* more, that the inventory is full; the "g" key on an item does just that
\* and takes no turn; and the inventory never holds more than 26 items.
C18_FullInventory ==
    /\ [](/\ Len(game.inventory) <= INVENTORY_CAPACITY
          /\ Len(game.inventory) = INVENTORY_CAPACITY =>
                \A i \in {j \in DOMAIN objects : is_some(objects[j].item)} :
                    pick_item_up(i, game, objects) =
                        [game |-> [game EXCEPT !.messages =
                                      Append(@, full_message(objects[i].name))],
                         objects |-> objects])
    /\ [][/\ pc = "keys" /\ Len(game.inventory) = INVENTORY_CAPACITY
          /\ items_here(objects) # {}
          /\ Len(game'.inventory) = INVENTORY_CAPACITY
          /\ game' # game
          => /\ \E i \in items_here(objects) :
                   game' = [game EXCEPT !.messages = Append(@, full_message(objects[i].name))]
             /\ objects' = objects
             /\ action' = "DidntTakeTurn"
             /\ pc' = "loop"
             /\ UNCHANGED <<fov, savegame, ticks, level_up_xp_>>]_vars

\* The 26th item has been picked up and the next one refused: the log ends
\* with the two messages, and the refused item is still under the player.
C18_Witness ==
    /\ pc = "loop" /\ action = "DidntTakeTurn"
    /\ Len(game.inventory) = INVENTORY_CAPACITY
    /\ Len(game.messages) = 3
    /\ game.messages[2].text[1] = "You've just picked up a {}!"
    /\ \E i \in items_here(objects) : game.messages[3] = full_message(objects[i].name)
    /\ Len(objects) = 3

---------------------------------------------------------------------------
(* Replacing the saved document *)

\* C21: every step leaves at the save location the document that was there
\* or the whole document of the session being saved, whatever the outcome
\* of File::create and write_all.
C21_AtomicReplace ==
    [][\/ savegame' = savegame
       \/ savegame' = Some(to_string(game, objects))]_vars

---------------------------------------------------------------------------
(* Death *)

\* C22: in the step in which an entity of the collection goes from alive to
\* not alive, its glyph becomes '%' and its color DARK_RED, blocks becomes
\* false, its fighter and its ai become None and its name becomes
\* "remains of " followed by the name it had.
C22_DeathTransforms ==
    [][\A i \in DOMAIN objects :
          /\ i \in DOMAIN objects'
          /\ game'.dungeon_level = game.dungeon_level
          /\ objects[i].alive /\ ~objects'[i].alive
          => /\ objects'[i].glyph = "%"
             /\ objects'[i].color = "DARK_RED"
             /\ ~objects'[i].blocks
             /\ is_none(objects'[i].fighter)
             /\ is_none(objects'[i].ai)
             /\ objects'[i].name = "remains of " \o objects[i].name]_vars

\* The entities of a collection that are alive
living(objs) == {i \in DOMAIN objs : objs[i].alive}

\* C23: a player that is not alive is not alive after any step. On a level,
\* a step either keeps every entity at its index, and none that is not
\* alive becomes alive; or takes one entity out as swap_remove does and
\* leaves the others as they are; or appends one entity that is not alive
\* and leaves the others as they are. A step in which an entity dies keeps
\* the length of the collection, the dead entity at its index.
C23_DeathStays ==
    /\ [][~objects[PLAYER].alive => ~objects'[PLAYER].alive]_vars
    /\ [][game'.dungeon_level = game.dungeon_level =>
             \/ /\ Len(objects') = Len(objects)
                /\ living(objects') \subseteq living(objects)
             \/ /\ living(objects') = living(objects)
                /\ \E k \in DOMAIN objects : objects' = swap_remove(objects, k)
             \/ /\ Len(objects') = Len(objects) + 1
                /\ SubSeq(objects', 1, Len(objects)) = objects
                /\ ~objects'[Len(objects')].alive]_vars
    /\ [][\A i \in DOMAIN objects :
             /\ game'.dungeon_level = game.dungeon_level
             /\ i \in DOMAIN objects'
             /\ objects[i].alive /\ ~objects'[i].alive
             => /\ Len(objects') = Len(objects)
                /\ pos(objects'[i]) = pos(objects[i])]_vars

\* An orc was killed and is still in the collection, not alive, steps after
\* its death: the player has died as well since, and the session has been
\* left with Escape.
C23_Witness ==
    /\ pc = "exit" /\ action = "Exit"
    /\ ~objects[PLAYER].alive
    /\ Len(objects) = 4
    /\ \E i \in DOMAIN objects : objects[i].name = "remains of orc" /\ ~objects[i].alive
    /\ count(<<"You died!">>) = 1

---------------------------------------------------------------------------
(* The fireball: sessions saved with two scrolls of fireball held, the     *)
(* player with 40 xp between an orc and a troll.                           *)

\* hp is the player's, orc and troll the monsters'
scorched(hp, orc, troll) ==
    saved_session(1, Fighter(100, hp, 1, 2, 40, "Player"),
                  <<"Orc", orc>>, <<"Troll", troll>>, TRUE, <<"Fireball", "Fireball">>)

InitFireball ==
    Continue({scorched(10, 20, 9), scorched(10, 20, 30), scorched(100, 20, 9),
              scorched(100, 20, 30), scorched(30, 20, 30)})

NextFireball ==
    \/ BeginCycle
    \/ KeyEscape
    \/ KeyUse(FireLog)
    \/ KeyWait(FireLog)
    \/ AiTurn

SpecFireball == InitFireball /\ [][NextFireball]_vars

\* Whether the messages a step appends tell of a fireball's explosion
exploded ==
    \E k \in DOMAIN appended :
        appended[k].text[1] = "The fireball explodes, burning everything within {} tiles!"

\* C24: a fireball cast on any tile adds to the player's xp the sum of the
\* xp of the entities other than the player that it takes from alive to
\* dead, and nothing else, whether or not it kills the player; so does the
\* step of the key that casts it.
C24_FireballReward ==
    /\ [](pc = "keys" /\ objects[PLAYER].alive =>
             \A t \in target_tiles(fov, objects, 0) :
                 LET r == cast_fireball(Some(t), game, objects)
                     dead == {k \in DOMAIN objects \ {PLAYER} :
                                 objects[k].alive /\ ~r.objects[k].alive}
                 IN  r.objects[PLAYER].fighter[1].xp =
                         player_xp + SumSeq([k \in DOMAIN objects |->
                                               IF k \in dead THEN objects[k].fighter[1].xp
                                               ELSE 0]))
    /\ [][exploded => objects'[PLAYER].fighter[1].xp = player_xp + reward_of_killed]_vars

\* The player had 40 xp and 10 hp and has died of its own fireball, which
\* killed the orc (35 xp) and the troll (100 xp) as well: it has 175 xp.
C24_Witness ==
    /\ ~objects[PLAYER].alive
    /\ count(<<"You died!">>) = 1
    /\ count(<<"The fireball explodes, burning everything within {} tiles!", FIREBALL_RADIUS>>) = 1
    /\ \E i, j \in DOMAIN objects :
          objects[i].name = "remains of orc" /\ objects[j].name = "remains of troll"
    /\ player_xp = 175

---------------------------------------------------------------------------
(* Components *)

\* The entities of the collection and of the inventory
entities ==
    {objects[i] : i \in DOMAIN objects} \cup {game.inventory[i] : i \in DOMAIN game.inventory}

\* C25: every entity of the collection and of the inventory that has an
\* equipment has an item kind, and every one that has an ai is alive.
C25_ValidComponents ==
    \A o \in entities :
        /\ is_some(o.equipment) => is_some(o.item)
        /\ is_some(o.ai) => o.alive

\* After a sweep: one orc has died and has no ai, the other has been ticked
\* and has its ai again, and the dagger is held.
C25_Witness ==
    /\ pc = "loop" /\ action = "TookTurn"
    /\ \E i \in DOMAIN objects : objects[i].name = "remains of orc" /\ is_none(objects[i].ai)
    /\ \E i \in DOMAIN objects : objects[i].name = "orc" /\ is_some(objects[i].ai)
    /\ \E i \in DOMAIN game.inventory : is_some(game.inventory[i].equipment)

---------------------------------------------------------------------------
(* The level-up menu: the sessions one kill from the second level, with   *)
(* the valid selection that level_up waits for made at some time.         *)

InitLevelUp == Continue({last_stand, veteran})

NextLevelUp ==
    \/ BeginCycle
    \/ LevelUpMenu
    \/ KeyEscape
    \/ KeyMove(LevelLog, Directions)
    \/ AiTurn

SpecLevelUp == InitLevelUp /\ [][NextLevelUp]_vars /\ WF_vars(LevelUpRound(0..2))

\* C26: menu returns a selection for the three letters of the level-up menu
\* and None for any other key. A round of the menu loop either leaves the
\* game, its log and the collection as they are and the loop running, or
\* ends the loop with the choice of one of the three selections applied and
\* the log as it is; the step that enters the loop raises the level by one
\* and logs the message of the new level, once. With a valid selection made
\* at some time, the loop ends.
C26_LevelUpMenu ==
    /\ [](pc = "menu" =>
             \A key \in -1..3 :
                 menu(key, 3) = IF key \in 0..2 THEN Some(key) ELSE None)
    /\ [][pc = "menu" =>
             /\ game' = game
             /\ \/ objects' = objects /\ pc' = "menu" /\ level_up_xp_' = level_up_xp_
                \/ /\ pc' = "keys"
                   /\ \E selected \in 0..2 :
                         objects' = [objects EXCEPT ![PLAYER].fighter[1] =
                                        level_up_apply(selected, level_up_xp_, @)]]_vars
    /\ [][pc # "menu" /\ pc' = "menu" =>
             /\ objects'[PLAYER].level = objects[PLAYER].level + 1
             /\ appended = <<[text |-> <<"Your battle skills grow stronger! You reached level {}!",
                                         objects'[PLAYER].level>>,
                              color |-> "YELLOW"]>>]_vars
    /\ (pc = "menu" ~> pc = "keys")

\* Two rounds of the menu have returned None: the loop is still running, the
\* player of the second level with its 350 xp unpaid and its stats as they
\* were, the message of the new level once in the log.
C26_Witness ==
    /\ pc = "menu" /\ rounds = 2
    /\ objects[PLAYER].level = 2
    /\ [objects[PLAYER].fighter[1] EXCEPT !.hp = 100] = Fighter(100, 100, 1, 2, 350, "Player")
    /\ count(<<"Your battle skills grow stronger! You reached level {}!", 2>>) = 1

---------------------------------------------------------------------------
(* The Basic tick *)

\* Whether the message tells of an attack on the player
on_the_player(message) ==
    /\ message.text[1] \in {"{} attacks {} for {} hit points.",
                            "{} attacks {} but it has no effect!"}
    /\ message.text[2] # "player" /\ message.text[3] = "player"

\* C27: a step logs an attack of a monster on the player, with or without
\* effect, only if the player is alive before the step.
C27_NoAttackOnDead ==
    [][\A k \in DOMAIN appended : on_the_player(appended[k]) => objects[PLAYER].alive]_vars

sign(d) == IF d > 0 THEN 1 ELSE IF d < 0 THEN -1 ELSE 0

\* C28: the Basic tick of an entity returns Basic and changes no entity but
\* that one and, by its attack, the player. Out of the field of view it
\* changes nothing. In view and with dx*dx + dy*dy >= 4 for the offset
\* (dx, dy) to the player, it logs nothing and the entity ends on the tile
\* one step (sx, sy) from its own, sx and sy in -1..1, not both 0, neither
\* of a sign opposite to dx's and dy's, sx being 0 exactly when
\* |dx| / sqrt(dx*dx + dy*dy) < 1/2 and sy likewise, nearer to the player
\* than it was, if that tile is not blocked, and where it was if it is. In view and with
\* dx*dx + dy*dy < 4 the entity stays where it is.
C28_BasicTick ==
    \A i \in DOMAIN objects \ {PLAYER} :
        is_some(objects[i].ai) =>
            LET r == ai_basic(i, fov, game, objects)
                dx == objects[PLAYER].x - objects[i].x
                dy == objects[PLAYER].y - objects[i].y
                sx == r.objects[i].x - objects[i].x
                sy == r.objects[i].y - objects[i].y
                moved == pos(r.objects[i]) # pos(objects[i])
            IN  /\ r.ai = Basic
                /\ \A j \in DOMAIN objects \ {i, PLAYER} : r.objects[j] = objects[j]
                /\ pos(objects[i]) \notin fov => r.objects = objects /\ r.game = game
                /\ dx * dx + dy * dy < 4 => ~moved
                /\ moved =>
                      /\ pos(objects[i]) \in fov /\ dx * dx + dy * dy >= 4
                      /\ r.game = game
                      /\ r.objects = [objects EXCEPT ![i] = set_pos(@, objects[i].x + sx, objects[i].y + sy)]
                      /\ sx \in -1..1 /\ sy \in -1..1
                      /\ sx * dx >= 0 /\ sy * dy >= 0
                      /\ distance2(r.objects[i], objects[PLAYER].x, objects[PLAYER].y)
                            < dx * dx + dy * dy
                /\ (pos(objects[i]) \in fov /\ dx * dx + dy * dy >= 4) =>
                      \E tx, ty \in -1..1 :
                          /\ <<tx, ty>> # <<0, 0>>
                          /\ tx = IF 3 * dx * dx >= dy * dy THEN sign(dx) ELSE 0
                          /\ ty = IF 3 * dy * dy >= dx * dx THEN sign(dy) ELSE 0
                          /\ r.game = game
                          /\ moved = ~is_blocked(objects[i].x + tx, objects[i].y + ty,
                                                 game.map, objects)
                          /\ moved => sx = tx /\ sy = ty

\* In a new game with nothing logged but the welcome, a monster in view
\* stands off the row on which make_map puts the monsters of its room: the
\* player has stepped two tiles or more away from it and it has stepped
\* after the player.
C28_Witness ==
    /\ savegame = None /\ Len(game.messages) = 1 /\ game.dungeon_level = 1
    /\ pc = "loop" /\ action = "TookTurn"
    /\ \E i \in DOMAIN objects \ {PLAYER} :
          /\ objects[i].ai = Some(Basic)
          /\ pos(objects[i]) \in fov
          /\ \A layout \in Layouts :
                \A k \in DOMAIN layout.rooms : pos(objects[i]) \notin spawn_cells(layout.rooms[k])

---------------------------------------------------------------------------
(* Dropping and picking up *)

\* What the item gives of `stat` while it is equipped
bonus_of(item, stat) ==
    IF is_some(item.equipment) /\ item.equipment[1].equipped
    THEN item.equipment[1][stat] ELSE 0

\* C29: no entity of the collection has an equipment that is equipped; and
\* the drop of any held item puts it in the collection with its equipment,
\* if it has one, not equipped, and takes off the player's max_hp, power
\* and defense exactly what the item gave while it was held.
C29_DroppedIsDequipped ==
    /\ \A i \in DOMAIN objects :
          is_some(objects[i].equipment) => ~objects[i].equipment[1].equipped
    /\ \A i \in DOMAIN game.inventory :
          LET r == drop_item(i, game, objects)
              held == game.inventory[i]
              dropped == r.objects[Len(r.objects)]
              player == objects[PLAYER]
          IN  /\ is_some(held.equipment) =>
                    dropped.equipment = Some([held.equipment[1] EXCEPT !.equipped = FALSE])
              /\ max_hp(player, r.game) = max_hp(player, game) - bonus_of(held, "max_hp_bonus")
              /\ power(player, r.game) = power(player, game) - bonus_of(held, "power_bonus")
              /\ defense(player, r.game) = defense(player, game) - bonus_of(held, "defense_bonus")

\* The dagger of a new game, equipped from the start, has been dropped: it
\* lies under the player, not equipped, and the player's power is its base
\* power.
C29_Witness ==
    /\ savegame = None /\ pc = "loop" /\ action = "DidntTakeTurn"
    /\ game.inventory = <<>>
    /\ count(<<"You dropped a {}.", "dagger">>) = 1
    /\ \E i \in DOMAIN objects :
          /\ objects[i].name = "dagger" /\ pos(objects[i]) = pos(objects[PLAYER])
          /\ objects[i].equipment = Some(Equipment("RightHand", FALSE, 0, 0, 2))
    /\ power(objects[PLAYER], game) = objects[PLAYER].fighter[1].base_power

\* The entity but for where it is and whether it is equipped
as_held(o) ==
    [o EXCEPT !.x = 0, !.y = 0,
              !.equipment = IF is_some(@) THEN Some([@[1] EXCEPT !.equipped = FALSE]) ELSE @]

\* The held entity as drop_item leaves it under the player
as_dropped(o, player) ==
    [o EXCEPT !.x = player.x, !.y = player.y,
              !.equipment = IF is_some(@) THEN Some([@[1] EXCEPT !.equipped = FALSE]) ELSE @]

\* C30: with room in the inventory, the pickup of the first item under the
\* player takes that entity and no other out of the collection (the last
\* entity takes its index), and appends it, but for its being equipped, to
\* the inventory, whose other items stay as they are. The drop of
\* inventory[i] takes that item and no other out of the inventory, in
\* order, and appends it to the collection, on the player's tile and not
\* equipped. No step changes the number of entities of the collection and
\* the inventory together, and the "g" key picks up the first item under
\* the player.
C30_Transfers ==
    /\ [](pc = "keys" =>
             /\ (items_here(objects) # {} /\ Len(game.inventory) < INVENTORY_CAPACITY) =>
                   LET first == CHOOSE i \in items_here(objects) :
                                    \A j \in items_here(objects) : i <= j
                       r == pick_item_up(first, game, objects)
                       n == Len(game.inventory)
                   IN  /\ Len(r.objects) = Len(objects) - 1
                       /\ \A j \in DOMAIN r.objects :
                             r.objects[j] = IF j = first THEN objects[Len(objects)] ELSE objects[j]
                       /\ Len(r.game.inventory) = n + 1
                       /\ SubSeq(r.game.inventory, 1, n) = game.inventory
                       /\ as_held(r.game.inventory[n + 1]) = as_held(objects[first])
                       /\ pos(r.game.inventory[n + 1]) = pos(objects[first])
             /\ \A i \in DOMAIN game.inventory :
                   LET r == drop_item(i, game, objects)
                   IN  /\ r.objects = Append(objects, as_dropped(game.inventory[i], objects[PLAYER]))
                       /\ r.game.inventory =
                             SubSeq(game.inventory, 1, i - 1)
                                \o SubSeq(game.inventory, i + 1, Len(game.inventory)))
    /\ [][/\ Len(objects') + Len(game'.inventory) = Len(objects) + Len(game.inventory)
          /\ Len(game'.inventory) = Len(game.inventory) + 1 =>
                \E i \in items_here(objects) :
                    /\ \A j \in items_here(objects) : i <= j
                    /\ as_held(game'.inventory[Len(game'.inventory)]) = as_held(objects[i])
                    /\ objects' = swap_remove(objects, i)]_vars

\* The potion under the player was picked up as the 26th item and an item
\* was dropped then: 25 are held, and the collection has its four entities.
C30_Witness ==
    /\ pc = "loop" /\ action = "DidntTakeTurn"
    /\ Len(game.messages) = 3
    /\ game.messages[2].text = <<"You've just picked up a {}!", "healing potion">>
    /\ game.messages[3].text[1] = "You dropped a {}."
    /\ Len(game.inventory) = INVENTORY_CAPACITY - 1
    /\ Len(objects) = 4

---------------------------------------------------------------------------
(* The level that make_map returns *)

\* The tiles of `open` that are reached from those of `seen` by steps to the
\* tile above, below, left or right, `edge` being the tiles of `seen` whose
\* neighbours have not been looked at
RECURSIVE reach(_, _, _)
reach(open, seen, edge) ==
    LET next == (open \cap UNION {{<<t[1] + 1, t[2]>>, <<t[1] - 1, t[2]>>,
                                    <<t[1], t[2] + 1>>, <<t[1], t[2] - 1>>} : t \in edge})
                   \ seen
    IN  IF next = {} THEN seen ELSE reach(open, seen \cup next, next)

\* C31: when make_map returns, the player is on the center of the first
\* accepted room, on a tile that is not a wall and holds no other blocking
\* entity, and the center of every accepted room and the tile of the stairs
\* are reached from it over tiles that are not walls, by steps to the tile
\* above, below, left or right. No step of make_map makes a wall of a tile
\* that was carved.
C31_RoomsConnected ==
    /\ [](pc = "made" =>
             LET start == pos(objects[PLAYER])
             IN  /\ start = center(rooms[1])
                 /\ start \in game.map.empty
                 /\ \A i \in DOMAIN objects \ {PLAYER} :
                       objects[i].blocks => pos(objects[i]) # start
                 /\ {center(rooms[k]) : k \in DOMAIN rooms}
                       \cup {pos(objects[i]) : i \in {j \in DOMAIN objects :
                                                        objects[j].name = "stairs"}}
                       \subseteq reach(game.map.empty, {start}, {start}))
    /\ [][game.map.empty \subseteq game'.map.empty]_vars

\* make_map has returned two rooms that share no tile, with a monster in
\* one of them and the stairs in the second.
C31_Witness ==
    /\ pc = "made" /\ Len(rooms) = 2
    /\ carve_room(rooms[1]) \cap carve_room(rooms[2]) = {}
    /\ \E i \in DOMAIN objects : is_some(objects[i].ai)
    /\ pos(objects[Len(objects)]) = center(rooms[2])
    /\ game.map.empty # carve_room(rooms[1]) \cup carve_room(rooms[2])

---------------------------------------------------------------------------
(* fill_with_objects of game/map.rs draw by draw, on the second room of a  *)
(* level whose first room it left empty.                                   *)

\* The dungeon levels of these runs: one within each step of the tables of
\* max_monsters, max_items and the troll's weight, and the first two levels
Depths == {1, 2, 3, 4, 6}

\* The layout of these runs: the corner room and the room apart from it
two_rooms ==
    place_room(place_room([rooms |-> <<>>, tunnels |-> {}],
                          [x |-> 0, y |-> 0, w |-> ROOM_MIN_SIZE, h |-> ROOM_MIN_SIZE],
                          TRUE),
               [x |-> ROOM_MAX_SIZE, y |-> 4, w |-> 8, h |-> ROOM_MIN_SIZE], TRUE)

InitFill ==
    /\ \E level \in Depths :
          game = [map |-> carved(two_rooms), messages |-> <<>>,
                  inventory |-> <<>>, dungeon_level |-> level]
    /\ objects = <<set_pos(new_player, center(two_rooms.rooms[1])[1],
                           center(two_rooms.rooms[1])[2])>>
    /\ rooms = two_rooms.rooms
    /\ cursor = 1
    /\ pc = "monsters"
    /\ skipped = 0
    /\ rounds = 0
    /\ fov = {}
    /\ action = "None"
    /\ id = 0
    /\ previous_player_position = <<-1, -1>>
    /\ level_up_xp_ = 0
    /\ savegame = None
    /\ ticks = 0

\* The entities that the loops of fill_with_objects have pushed
monsters_pushed == {i \in DOMAIN objects : i # PLAYER /\ is_some(objects[i].ai)}

items_pushed == {i \in DOMAIN objects : is_some(objects[i].item)}

\* One iteration of `for _ in 0..num_monsters`. num_monsters is drawn from
\* 0..max_monsters before the loop; the model draws it as the loop goes: the
\* loop can end after any iteration, and does after max_monsters of them.
MonsterDraw ==
    /\ pc = "monsters"
    /\ Cardinality(monsters_pushed) + skipped < max_monsters(game.dungeon_level)
    /\ \E c \in spawn_cells(rooms[cursor + 1]) :
          IF is_blocked(c[1], c[2], game.map, objects)
          THEN /\ skipped' = skipped + 1
               /\ UNCHANGED objects
          ELSE /\ \E monster \in weighted_choices(monster_chances(game.dungeon_level)) :
                     objects' = Append(objects, Monster_create(monster, c[1], c[2]))
               /\ UNCHANGED skipped
    /\ UNCHANGED <<game, fov, pc, action, id, previous_player_position, level_up_xp_,
                   savegame, ticks, rooms, cursor, rounds>>

\* The end of the first loop
MonsterLoopEnd ==
    /\ pc = "monsters"
    /\ pc' = "items"
    /\ skipped' = 0
    /\ UNCHANGED <<game, objects, fov, action, id, previous_player_position,
                   level_up_xp_, savegame, ticks, rooms, cursor, rounds>>

\* One iteration of `for _ in 0..num_items`, num_items drawn as num_monsters
ItemDraw ==
    /\ pc = "items"
    /\ Cardinality(items_pushed) + skipped < max_items(game.dungeon_level)
    /\ \E c \in spawn_cells(rooms[cursor + 1]) :
          IF is_blocked(c[1], c[2], game.map, objects)
          THEN /\ skipped' = skipped + 1
               /\ UNCHANGED objects
          ELSE /\ \E item \in weighted_choices(item_chances(game.dungeon_level)) :
                     objects' = Append(objects, [Item_create(item, c[1], c[2])
                                                    EXCEPT !.always_visible = TRUE])
               /\ UNCHANGED skipped
    /\ UNCHANGED <<game, fov, pc, action, id, previous_player_position, level_up_xp_,
                   savegame, ticks, rooms, cursor, rounds>>

\* The end of the second loop, and of the room's iteration in make_map
ItemLoopEnd ==
    /\ pc = "items"
    /\ pc' = "fill"
    /\ cursor' = cursor + 1
    /\ skipped' = 0
    /\ UNCHANGED <<game, objects, fov, action, id, previous_player_position,
                   level_up_xp_, savegame, ticks, rooms, rounds>>

NextFill == MonsterDraw \/ MonsterLoopEnd \/ ItemDraw \/ ItemLoopEnd \/ PlaceStairs

SpecFill == InitFill /\ [][NextFill]_vars

\* The value that the claim gives a table at a level
last_reached(table, level) ==
    IF \A k \in DOMAIN table : table[k][1] > level THEN 0
    ELSE LET k == CHOOSE j \in DOMAIN table :
                     /\ table[j][1] <= level
                     /\ \A later \in (j + 1)..Len(table) : table[later][1] > level
         IN  table[k][2]

\* What an iteration of either loop of fill_with_objects does
a_draw ==
    pc \in {"monsters", "items"} /\ pc' = pc =>
       \/ /\ objects' = objects
          /\ skipped' = skipped + 1
          /\ \E c \in spawn_cells(rooms[cursor + 1]) :
                is_blocked(c[1], c[2], game.map, objects)
       \/ /\ skipped' = skipped
          /\ Len(objects') = Len(objects) + 1
          /\ SubSeq(objects', 1, Len(objects)) = objects
          /\ LET new == objects'[Len(objects')]
             IN  /\ ~is_blocked(new.x, new.y, game.map, objects)
                 /\ is_some(new.ai) = (pc = "monsters")
                 /\ is_some(new.item) = (pc = "items")

---------------------------------------------------------------------------
(* The place of the player in the world collection *)

\* The entity that does not change with what the player does or suffers
person(o) == [name |-> o.name, ai |-> o.ai, item |-> o.item, equipment |-> o.equipment,
              has_fighter |-> is_some(o.fighter), always_visible |-> o.always_visible]

\* A step that takes an entity out of the collection into the inventory
a_pickup ==
    /\ Len(objects') = Len(objects) - 1
    /\ Len(game'.inventory) = Len(game.inventory) + 1

\* C33: in every state the first entity of the world collection is the
\* player, and no other entity is; no step changes who the first entity is,
\* and a pickup takes an entity other than the first and leaves the first
\* as it is.
C33_PlayerFirst ==
    /\ [](/\ Len(objects) >= 1
          /\ objects[PLAYER].name = "player"
          /\ is_some(objects[PLAYER].fighter)
          /\ objects[PLAYER].fighter[1].on_death = "Player"
          /\ is_none(objects[PLAYER].item)
          /\ \A i \in DOMAIN objects \ {PLAYER} : objects[i].name # "player")
    /\ [][/\ person(objects'[PLAYER]) = person(objects[PLAYER])
          /\ a_pickup =>
                /\ objects'[PLAYER] = objects[PLAYER]
                /\ \E i \in DOMAIN objects \ {PLAYER} :
                      /\ is_some(objects[i].item)
                      /\ objects' = swap_remove(objects, i)
                      /\ i # Len(objects) => objects'[i] = objects[Len(objects)]]_vars

\* The player has picked the potion up that lay under the feet, an entity
\* which was not the last of the collection: the stairs, which were, are
\* where the potion was.
C33_Witness ==
    /\ count(<<"You've just picked up a {}!", "healing potion">>) = 1
    /\ \A i \in DOMAIN objects : objects[i].name # "healing potion"
    /\ Len(objects) >= 2
    /\ objects[PLAYER].name = "player"
    /\ pc = "keys"

---------------------------------------------------------------------------
(* The tiles of the entities that block *)

blocking(objs) == {i \in DOMAIN objs : objs[i].blocks}

\* C34: in every state of a session, the first after new_game, load_game or
\* a descent included, the entities that block stand on tiles of their own,
\* each an empty tile of the map.
C34_OneBlockerPerTile ==
    /\ \A i \in blocking(objects), j \in blocking(objects) :
          i # j => pos(objects[i]) # pos(objects[j])
    /\ {pos(objects[i]) : i \in blocking(objects)} \subseteq game.map.empty

\* The player has just moved and now stands next to a monster that blocks.
C34_Witness ==
    /\ pc = "sweep" /\ action = "TookTurn"
    /\ pos(objects[PLAYER]) # previous_player_position
    /\ \E i \in blocking(objects) \ {PLAYER} :
          distance2(objects[PLAYER], objects[i].x, objects[i].y) = 1

---------------------------------------------------------------------------
(* Sessions on levels of one room that lies as near to a corner of the map *)
(* as make_map can draw it, played with the movement keys.                 *)

\* The draws (x, y, w, h) with x and y both the least or both the greatest that
\* gen_range(0, MAP_WIDTH - w) and gen_range(0, MAP_HEIGHT - h) give
BorderDraws ==
    {[x |-> 0, y |-> 0, w |-> ROOM_MIN_SIZE, h |-> ROOM_MIN_SIZE],
     [x |-> MAP_WIDTH - ROOM_MIN_SIZE - 1, y |-> MAP_HEIGHT - ROOM_MIN_SIZE - 1,
      w |-> ROOM_MIN_SIZE, h |-> ROOM_MIN_SIZE]}

\* new_game on the levels whose every later draw make_map rejected
border_games ==
    UNION {{[game |-> [map |-> made.map, messages |-> welcome,
                       inventory |-> <<new_dagger>>, dungeon_level |-> 1],
             objects |-> made.objects] :
               made \in make_map_on(place_room([rooms |-> <<>>, tunnels |-> {}], draw, TRUE),
                                    <<new_player>>, 1)} :
              draw \in BorderDraws}

InitBorder ==
    /\ \E session \in border_games : Enter(session)
    /\ savegame = None

NextBorder ==
    \/ BeginCycle
    \/ KeyEscape
    \/ KeyWait(MaxLog)
    \/ KeyMove(MaxLog, Directions)
    \/ AiTurn

SpecBorder == InitBorder /\ [][NextBorder]_vars

\* The tiles strictly inside the border of the map
inside == {<<x, y>> : x \in 1..(MAP_WIDTH - 2), y \in 1..(MAP_HEIGHT - 2)}

\* C35: no tile of the outer border of the map is empty, every entity stands
\* strictly inside the border, and so every tile that a step of an entity in
\* one of the eight directions leads to, which is_blocked looks up in the
\* map before is_out_of_bounds is asked, is a tile of the map.
C35_InsideBorder ==
    /\ game.map.empty \subseteq inside
    /\ \A x \in 0..(MAP_WIDTH - 1), y \in {0, MAP_HEIGHT - 1} : <<x, y>> \notin game.map.empty
    /\ \A x \in {0, MAP_WIDTH - 1}, y \in 0..(MAP_HEIGHT - 1) : <<x, y>> \notin game.map.empty
    /\ \A i \in DOMAIN objects :
          /\ pos(objects[i]) \in inside
          /\ \A dx \in -1..1, dy \in -1..1 :
                /\ ~is_out_of_bounds(objects[i].x + dx, objects[i].y + dy)
                /\ pos(move_by(i, dx, dy, game, objects)[i]) \in inside

\* The player has walked into the corner of the room in the far corner of
\* the map: the tiles to the right and below are tiles of the border.
C35_Witness ==
    /\ pc = "keys"
    /\ pos(objects[PLAYER]) = <<MAP_WIDTH - 2, MAP_HEIGHT - 2>>
    /\ previous_player_position = pos(objects[PLAYER])
    /\ \E i \in DOMAIN objects : is_some(objects[i].ai) /\ objects[i].alive

---------------------------------------------------------------------------
(* The armoury: sessions saved on the eighth level with no monster on it,  *)
(* the dagger held, equipped or not, and a sword and a shield on the floor *)
(* under the player.                                                       *)

armoury(armed) ==
    LET session == saved_session(8, Fighter(100, 100, 1, 2, 0, "Player"), <<>>, <<>>,
                                 armed, <<>>)
        player == session.objects[PLAYER]
    IN  [session EXCEPT !.objects =
            @ \o <<Item_create("Sword", player.x, player.y),
                   Item_create("Shield", player.x, player.y)>>]

InitArmoury == Continue({armoury(TRUE), armoury(FALSE)})

NextArmoury ==
    \/ BeginCycle
    \/ KeyEscape
    \/ KeyPickUp(ArmouryLog)
    \/ KeyDrop(ArmouryLog)
    \/ KeyUse(ArmouryLog)

SpecArmoury == InitArmoury /\ [][NextArmoury]_vars

\* The held items that are equipped in the slot
worn_in(slot, inventory) ==
    {i \in DOMAIN inventory : /\ is_some(inventory[i].equipment)
                              /\ inventory[i].equipment[1].equipped
                              /\ inventory[i].equipment[1].slot = slot}

\* The item with its Equipment equipped or not
worn_as(item, equipped_) == [item EXCEPT !.equipment[1].equipped = equipped_]

\* C36: every slot holds at most one equipped item of the inventory. An
\* equipment picked up is held equipped if no held item is equipped in its
\* slot, and as it lay otherwise, the items held before as they were. Using
\* a held equipment that is not equipped leaves it equipped, the item that
\* was equipped in its slot dequipped and every other item as it was; using a
\* held equipment in either state leaves the inventory with the same items
\* in the same places, the equipped flags apart.
C36_OnePerSlot ==
    /\ \A slot \in Slots : Cardinality(worn_in(slot, game.inventory)) <= 1
    /\ Len(game.inventory) < INVENTORY_CAPACITY =>
          \A k \in {j \in DOMAIN objects : is_some(objects[j].equipment)} :
              LET held == pick_item_up(k, game, objects).game.inventory
                  slot == objects[k].equipment[1].slot
              IN  /\ Len(held) = Len(game.inventory) + 1
                  /\ SubSeq(held, 1, Len(game.inventory)) = game.inventory
                  /\ held[Len(held)] =
                        IF worn_in(slot, game.inventory) = {}
                        THEN worn_as(objects[k], TRUE)
                        ELSE objects[k]
    /\ \A i \in {j \in DOMAIN game.inventory : is_some(game.inventory[j].equipment)} :
          LET used == use_item(i, [monster |-> 0, tile |-> None], fov, game, objects)
              slot == game.inventory[i].equipment[1].slot
          IN  /\ used.objects = objects
              /\ Len(used.game.inventory) = Len(game.inventory)
              /\ \A j \in DOMAIN game.inventory :
                    used.game.inventory[j] =
                        IF j = i
                        THEN worn_as(game.inventory[j], ~game.inventory[j].equipment[1].equipped)
                        ELSE IF j \in worn_in(slot, game.inventory)
                        THEN worn_as(game.inventory[j], FALSE)
                        ELSE game.inventory[j]

\* The sword was picked up while the dagger was equipped, and then used: the
\* sword is equipped and the dagger, still held, is not; the shield was
\* equipped as it was picked up.
C36_Witness ==
    /\ pc = "keys"
    /\ \E d \in DOMAIN game.inventory, w \in DOMAIN game.inventory,
          h \in DOMAIN game.inventory :
          /\ game.inventory[d].name = "dagger" /\ ~game.inventory[d].equipment[1].equipped
          /\ game.inventory[w].name = "sword" /\ game.inventory[w].equipment[1].equipped
          /\ game.inventory[h].name = "shield" /\ game.inventory[h].equipment[1].equipped
    /\ count(<<"Dequipped {} on {}.", "dagger", "RightHand">>) = 1

---------------------------------------------------------------------------
(* The living and the hit points *)

\* C37: an entity with a Fighter is alive exactly while its hp is positive;
\* and no step changes the hp, the level, the xp or the base stats of a
\* player that is dead, whose hp is 0.
C37_AliveIffHp ==
    /\ [](\A i \in DOMAIN objects :
              is_some(objects[i].fighter) =>
                  (objects[i].alive <=> objects[i].fighter[1].hp > 0))
    /\ [][~objects[PLAYER].alive =>
              /\ objects[PLAYER].fighter[1].hp = 0
              /\ objects'[PLAYER].fighter[1].hp = 0
              /\ objects'[PLAYER].level = objects[PLAYER].level
              /\ objects'[PLAYER].fighter[1].xp = objects[PLAYER].fighter[1].xp
              /\ objects'[PLAYER].fighter[1].base_max_hp = objects[PLAYER].fighter[1].base_max_hp
              /\ objects'[PLAYER].fighter[1].base_defense = objects[PLAYER].fighter[1].base_defense
              /\ objects'[PLAYER].fighter[1].base_power = objects[PLAYER].fighter[1].base_power]_vars

---------------------------------------------------------------------------
(* The turns: sessions saved by a player that died between two orcs, by a  *)
(* wounded player on the stairs between an orc and a troll with a potion   *)
(* held, and by a player over a potion and a scroll, played with any keys. *)

\* The session of last_stand as Escape saves it after the player waited and
\* the west orc killed it
fallen ==
    [last_stand EXCEPT !.objects[PLAYER].fighter[1].hp = 0,
                       !.objects[PLAYER].alive = FALSE,
                       !.objects[PLAYER].glyph = "%",
                       !.objects[PLAYER].color = "DARK_RED"]

InitTurns == Continue({fallen, on_the_stairs(70), pack_of(2)})

NextTurns ==
    \/ BeginCycle
    \/ KeyEscape
    \/ KeyPickUp(TurnLog)
    \/ KeyDrop(TurnLog)
    \/ KeyUse(TurnLog)
    \/ KeyDescend(TurnLog)
    \/ KeyWait(TurnLog)
    \/ KeyMove(TurnLog, Directions)
    \/ KeyOther(TurnLog)
    \/ AiTurn

SpecTurns == InitTurns /\ [][NextTurns]_vars

\* What handle_keys and the test that follows it do in a step
a_intent ==
    pc = "keys" =>
        /\ action' \in {"TookTurn", "DidntTakeTurn", "Exit"}
        /\ pc' = "sweep" => action' = "TookTurn"
        /\ action' = "TookTurn" =>
              /\ objects[PLAYER].alive
              /\ game'.inventory = game.inventory
              /\ game'.dungeon_level = game.dungeon_level
              /\ Len(objects') = Len(objects)
              /\ \/ game' = game /\ objects' = objects
                 \/ \E d \in Directions :
                       LET r == player_move_or_attack(d[1], d[2], game, objects)
                       IN  game' = r.game /\ objects' = r.objects
        /\ \/ game'.inventory # game.inventory
           \/ game'.dungeon_level # game.dungeon_level
           \/ Len(objects') # Len(objects)
           \/ \E k \in DOMAIN appended : appended[k].text[1] = "Cancelled"
           => action' = "DidntTakeTurn" /\ pc' = "loop"
        /\ pos(objects'[PLAYER]) # pos(objects[PLAYER])
              /\ game'.dungeon_level = game.dungeon_level
           => action' = "TookTurn"
        /\ ~objects[PLAYER].alive =>
              /\ action' \in {"DidntTakeTurn", "Exit"}
              /\ game' = game /\ objects' = objects
              /\ pc' # "sweep"

\* C38: a cycle's action is TookTurn only if the player is alive and the key
\* was a movement key or the wait key; a step that changes the inventory, the
\* number of entities or the level, or is cancelled, gives DidntTakeTurn and
\* goes back to the head of the loop with no sweep; a movement key gives
\* TookTurn, also when the destination is a wall and the player stays; and
\* a key of a dead player changes neither the game nor the collection and
\* gives DidntTakeTurn, or Exit if it is Escape.
C38_TurnTaking ==
    /\ [][a_intent]_vars
    /\ [][KeyMove(TurnLog, Directions) \/ KeyWait(TurnLog) => action' = "TookTurn"]_vars
    /\ [](pc = "keys" =>
             \A d \in Directions :
                 <<objects[PLAYER].x + d[1], objects[PLAYER].y + d[2]>> \notin game.map.empty
                     => /\ player_move_or_attack(d[1], d[2], game, objects).objects = objects
                        /\ player_move_or_attack(d[1], d[2], game, objects).game = game)

\* The dead player has pressed a key that is not Escape: the cycle ended
\* with DidntTakeTurn and the orc next to it, alive, was given no turn.
C38_Witness ==
    /\ ~objects[PLAYER].alive
    /\ pc = "loop" /\ action = "DidntTakeTurn"
    /\ \E i \in DOMAIN objects : objects[i].name = "orc" /\ objects[i].alive

---------------------------------------------------------------------------
(* Confusion on confusion: the session of the trickster saved after a      *)
(* first scroll was read and the orc had nine ticks of its confusion, a    *)
(* second scroll held; played with the inventory key and the wait key by a *)
(* player that goes on taking turns.                                       *)

dazed == [trickster EXCEPT !.objects[PLAYER + 1].ai = Some(Confused(Basic, 1))]

InitNested == Continue({dazed})

NextNested ==
    \/ BeginCycle
    \/ KeyUse(NestLog)
    \/ KeyWait(NestLog)
    \/ AiTurn

\* play_game goes from the head of a cycle to handle_keys and through the
\* sweep it has begun; and the player, while keys are read, waits again and
\* again.
SpecNested ==
    /\ InitNested /\ [][NextNested]_vars
    /\ WF_vars(BeginCycle) /\ WF_vars(AiTurn) /\ SF_vars(KeyWait(NestLog))

\* What a tick does to the Ai of a Confused entity
a_confused_tick ==
    \A i \in confused_of(objects) :
        IF pc = "sweep" /\ id = i
        THEN objects'[i].ai =
                 IF objects[i].ai[1].lasts_for >= 0
                 THEN Some(Confused(objects[i].ai[1].previous_ai,
                                    objects[i].ai[1].lasts_for - 1))
                 ELSE Some(objects[i].ai[1].previous_ai)
        ELSE \/ objects'[i].ai = objects[i].ai
             \/ objects'[i].ai = Some(Confused(objects[i].ai[1], CONFUSE_NUM_TURNS))

\* C39: confusion cast on a monster wraps the Ai the monster has, Confused
\* or not, in a new Confused of CONFUSE_NUM_TURNS; a tick of a Confused
\* monster counts its own counter down and, once that is below 0, puts the
\* Ai it wraps back as it was wrapped, a confusion with the count it had
\* reached; and a monster that is Confused is, after the sweeps of a player
\* that goes on taking turns, not Confused any more (or the log has reached
\* the length at which no key is read any more).
C39_NestedConfusion ==
    /\ [](\A target \in monsters_of(objects) :
             cast_confusion(target, game, objects).objects[target].ai =
                 Some(Confused(objects[target].ai[1], CONFUSE_NUM_TURNS)))
    /\ [][a_confused_tick]_vars
    /\ (confused_of(objects) # {}) ~>
           (confused_of(objects) = {} \/ Len(game.messages) >= NestLog)

\* The orc was confused again while it was confused, and is Basic again: the
\* log holds its two recoveries, and it took more ticks since the second
\* scroll than one confusion lasts.
C39_Witness ==
    /\ count(recovery.text) = 2
    /\ ticks > CONFUSE_NUM_TURNS + 2
    /\ confused_of(objects) = {}
    /\ \E i \in DOMAIN objects :
          objects[i].name = "orc" /\ objects[i].alive /\ objects[i].ai = Some(Basic)

---------------------------------------------------------------------------
(* Levels as they are made and as they are played: the runs of make_map    *)
(* step by step, and the sessions of any keys.                             *)

InitLevels == InitMap \/ Init

NextLevels == NextMap \/ Next

SpecLevels == InitLevels /\ [][NextLevels]_vars

\* The entities named stairs
stairs_in(objs) == {i \in DOMAIN objs : objs[i].name = "stairs"}

\* C40: in make_map the list of rooms is not empty once the first attempt
\* is made, the player then stands on the center of the first room, and the
\* level that is returned has a last room and one stairs entity; in every
\* state of a session the collection holds one stairs entity and the player
\* stands on an empty tile; and a step of a session that stays on the level
\* leaves the stairs entity what and where it is.
C40_OneStairs ==
    /\ [](/\ pc = "place" /\ cursor >= 1 =>
                /\ rooms # <<>>
                /\ pos(objects[PLAYER]) = center(rooms[1])
          /\ pc \in {"fill", "made"} =>
                /\ Len(rooms) >= 1
                /\ Len(rooms) - 1 \in 0..(Len(rooms) - 1)
                /\ pos(objects[PLAYER]) = center(rooms[1])
          /\ pc \notin {"place", "fill"} =>
                /\ Cardinality(stairs_in(objects)) = 1
                /\ pos(objects[PLAYER]) \in game.map.empty)
    /\ [][/\ pc \notin {"place", "fill", "made"}
          /\ game'.dungeon_level = game.dungeon_level
          => \E i \in stairs_in(objects), j \in stairs_in(objects') :
                objects'[j] = objects[i]]_vars

\* The player has come down to the second level: the stairs of the first
\* are gone with it, and the one stairs entity of the new level, of one room,
\* is under the player.
C40_Witness ==
    /\ pc = "keys" /\ game.dungeon_level = 2
    /\ player_on_stairs(objects)
    /\ Cardinality(stairs_in(objects)) = 1
    /\ count(<<"After a rare moment of peace, you descend deeper into the heart of the dungeon...">>) = 1

====
